---------------------------- MODULE Spec2Model ----------------------------
(***************************************************************************)
(* A model of the Feishu channel adapter (nanobot/channels/feishu.py):     *)
(* the inbound path (_on_message_sync, _on_message) with its dedup cache,  *)
(* the lifecycle (start, stop), the download file naming, the upload       *)
(* preconditions and the outbound send.                                    *)
(*                                                                         *)
(* One action is one uninterrupted run of the coordinating event loop:     *)
(* the code between two awaits that really suspend.  The blocking calls    *)
(* offloaded with run_in_executor have their outcome chosen when the       *)
(* coroutine is resumed.                                                   *)
(***************************************************************************)
EXTENDS Integers, Sequences, FiniteSets, TLC

VARIABLES
    config,                 \* [sdk, credentials]: FEISHU_AVAILABLE, app_id and app_secret set
    running,                \* self._running
    loop,                   \* self._loop: "none", "running" or "closed"
    client,                 \* self._client is set
    ws_client,              \* self._ws_client is set
    ws_thread,              \* self._ws_thread: "none", "started", "stop_requested"
    start_pc,               \* where start() is: "idle", "keepalive", "returned"
    processed_message_ids,  \* self._processed_message_ids, oldest first
    handlers,               \* the _on_message coroutines scheduled so far, in delivery order,
                            \* each with the reaction and get-resource calls it has issued
                            \* and its file_path (<<>> for None); the noted steps
                            \* add the outcome of its reaction call and the value
                            \* of self._running at each resumption
    bus,                    \* the calls of self._handle_message, in call order
    recorded,               \* history: identifiers in the order they were inserted as new keys
    evicted,                \* history: identifiers in the order popitem(last=False) removed them
    dropped,                \* history: the events _on_message_sync did not schedule,
                            \* where they are noted
    downloads,              \* the calls of _download_file under study
    media_files,            \* the files written under the workspace: [path, by, empty, writes]
    uploads,                \* the calls of _upload_media under study
    sends,                  \* the calls of send under study
    requests,               \* the requests issued to the platform, in order
    renders                 \* the calls of _build_card_elements under study

lifecycle == <<config, running, loop, client, ws_client, ws_thread, start_pc>>
inbound == <<processed_message_ids, handlers, bus, recorded, evicted, dropped>>
fetching == <<downloads, media_files>>
posting == <<uploads, sends, requests>>
rendering == <<renders>>
transfer == <<fetching, posting, rendering>>
vars == <<lifecycle, inbound, transfer>>

(***************************************************************************)
(* Bounds and program constants                                            *)
(***************************************************************************)
MaxDeliveries == 2          \* calls of _on_message_sync in one behaviour
NumIds == 2                 \* distinct message identifiers delivered to an empty cache
DedupCapacity == 1000       \* while len(self._processed_message_ids) > 1000

None == "None"
Absent == "<absent>"        \* a key the decoded payload does not hold

Range(s) == {s[k] : k \in 1..Len(s)}
Count(x, s) == Cardinality({k \in 1..Len(s) : s[k] = x})
Min(a, b) == IF a < b THEN a ELSE b

(***************************************************************************)
(* Inbound events.  content is message.content as json.loads sees it:      *)
(* form "object" (a JSON object with the given keys), "invalid" (not JSON: *)
(* JSONDecodeError) or "non_object" (JSON, but a number, string or list).  *)
(***************************************************************************)
Payload(form, raw, text, file_key, image_key) ==
    [form |-> form, raw |-> raw, text |-> text, file_key |-> file_key, image_key |-> image_key]

TextHello == Payload("object", "{text}", "hello", Absent, Absent)
NonObject == Payload("non_object", "42", Absent, Absent, Absent)
ImageWithKey == Payload("object", "{image_key}", Absent, Absent, "img_v2_key")

Event(id, sender_type, open_id, chat_type, msg_type, content) ==
    [message_id |-> id, sender_type |-> sender_type, open_id |-> open_id,
     chat_id |-> "oc_chat", chat_type |-> chat_type,
     message_type |-> msg_type, content |-> content]

UserEvents(ids) ==
    {Event(i, "user", "ou_user", "p2p", "text", c) : i \in ids, c \in {TextHello, NonObject}}
    \cup {Event(i, "user", "ou_user", "p2p", "image", ImageWithKey) : i \in ids}
BotEvents(ids) == {Event(i, "bot", "ou_bot", "p2p", "text", TextHello) : i \in ids}

RouterEvents == UserEvents(1..NumIds) \cup BotEvents(1..NumIds)

(***************************************************************************)
(* The dedup cache: an OrderedDict used as an insertion-ordered set        *)
(***************************************************************************)
\* a membership check that never finds the identifier
SeenBeforeNever(ids, id) == FALSE

\* message_id in self._processed_message_ids
SeenBefore(ids, id) == id \in Range(ids)

\* an insertion that is left out
RecordIdSkipped(ids, id) == ids

\* self._processed_message_ids[message_id] = None: a new key goes last, an
\* existing key keeps its place
RecordId(ids, id) == IF id \in Range(ids) THEN ids ELSE Append(ids, id)

\* a trim that starts one entry too late
TrimCacheLate(ids) == IF Len(ids) > DedupCapacity + 1 THEN Tail(ids) ELSE ids

\* a trim that drops the newest entry: popitem(last=True)
TrimCacheNewest(ids) ==
    IF Len(ids) > DedupCapacity THEN SubSeq(ids, 1, DedupCapacity) ELSE ids

\* while len(...) > 1000: popitem(last=False)
RECURSIVE TrimCache(_)
TrimCache(ids) == IF Len(ids) > DedupCapacity THEN TrimCache(Tail(ids)) ELSE ids

\* what TrimCache removed from ids, in removal order
Popped(ids, kept) == SubSeq(ids, 1, Len(ids) - Len(kept))

(***************************************************************************)
(* Message content (lines 695-749 of _on_message)                          *)
(***************************************************************************)
Part(kind, msg_type, text, path) ==
    [kind |-> kind, msg_type |-> msg_type, text |-> text, path |-> path]
TextPart(t) == Part("text", Absent, t, <<>>)

\* json.loads(...) succeeds but the value has no .get: AttributeError, which
\* neither inner handler catches
ParseRaises(content) == content.form = "non_object"

\* msg_type == "text": the "text" field, or the raw payload on JSONDecodeError;
\* an empty string adds nothing
TextParts(content) ==
    LET t == IF content.form = "invalid" THEN content.raw
             ELSE IF content.text = Absent THEN "" ELSE content.text
    IN IF t = "" THEN <<>> ELSE <<TextPart(t)>>

\* content_data.get("file_key"), then "image_key" for an image
ResourceKey(content, msg_type) ==
    IF content.form # "object" THEN Absent
    ELSE IF content.file_key \notin {Absent, ""} THEN content.file_key
    ELSE IF msg_type = "image" /\ content.image_key \notin {Absent, ""} THEN content.image_key
    ELSE Absent

\* MSG_TYPE_MAP.get(msg_type, f"[{msg_type}]")
Placeholder(msg_type) == Part("placeholder", msg_type, Absent, <<>>)

\* a media branch that leaves the failure of a download unmarked
MediaPartsFailureUnmarked(msg_type, has_key, file_path) ==
    IF file_path # <<>> THEN <<Part("ref", msg_type, Absent, file_path)>>
    ELSE <<Placeholder(msg_type)>>
\* what the media branch appends once the download (if any) has returned
MediaParts(msg_type, has_key, file_path) ==
    IF ~has_key THEN <<Placeholder(msg_type)>>
    ELSE IF file_path # <<>> THEN <<Part("ref", msg_type, Absent, file_path)>>
    ELSE <<Part("download_failed", msg_type, Absent, <<>>)>>

\* if "text" in content_data: content_parts.append(content_data["text"])
CaptionParts(content) ==
    IF content.form = "object" /\ content.text # Absent THEN <<TextPart(content.text)>> ELSE <<>>

\* "\n".join(content_parts) if content_parts else "[empty message]"
JoinContent(parts) == IF parts = <<>> THEN <<TextPart("[empty message]")>> ELSE parts

\* a handoff that always replies to the sender, also in a group
BusMessageToSender(ev, parts, paths) ==
    [sender_id |-> IF ev.open_id = None THEN "unknown" ELSE ev.open_id,
     chat_id |-> IF ev.open_id = None THEN "unknown" ELSE ev.open_id,
     content |-> JoinContent(parts),
     media |-> [present |-> paths # <<>>, paths |-> paths],
     metadata |-> [message_id |-> ev.message_id, chat_type |-> ev.chat_type,
                   msg_type |-> ev.message_type]]
\* the arguments of self._handle_message
BusMessage(ev, parts, paths) ==
    [sender_id |-> IF ev.open_id = None THEN "unknown" ELSE ev.open_id,
     chat_id |-> IF ev.chat_type = "group" THEN ev.chat_id
                 ELSE IF ev.open_id = None THEN "unknown" ELSE ev.open_id,
     content |-> JoinContent(parts),
     media |-> [present |-> paths # <<>>, paths |-> paths],
     metadata |-> [message_id |-> ev.message_id, chat_type |-> ev.chat_type,
                   msg_type |-> ev.message_type]]

(***************************************************************************)
(* File names and paths of _download_file: a name is a sequence of         *)
(* characters (or of longer pieces of text), a path a sequence of names    *)
(* below the workspace.                                                    *)
(***************************************************************************)
MaxNameLen == 3             \* characters of an enumerated declared file name

NameChars == {"a", ".", "-", "/", " "}
AlnumChars == {"a", "c", "d", "e", "p", "s", "t", "w"}      \* c.isalnum()
KeptSpecials == {".", "_", "-"}                              \* c in '._-'

NoName == <<>>              \* file_name is None or empty
DeclaredNames(n) == UNION {[1..k -> NameChars] : k \in 1..n}
TraversalName ==
    <<".", ".", "/", ".", ".", "/", "e", "t", "c", "/", "p", "a", "s", "s", "w", "d">>

\* file_key[:16]; the keys not listed have at most 16 characters
Key16(file_key) ==
    CASE file_key = "file_v2_0123456789_a" -> "file_v2_01234567"
      [] file_key = "file_v2_0123456789_b" -> "file_v2_01234567"
      [] OTHER -> file_key

\* str.split(ch) as pathlib uses it on the separator
RECURSIVE SplitAt(_, _)
SplitAt(s, ch) ==
    IF \A k \in 1..Len(s) : s[k] # ch THEN <<s>>
    ELSE LET k == CHOOSE j \in 1..Len(s) : s[j] = ch /\ \A i \in 1..(j - 1) : s[i] # ch
         IN <<SubSeq(s, 1, k - 1)>> \o SplitAt(SubSeq(s, k + 1, Len(s)), ch)

\* ext_map of _get_extension
MimeExtensions ==
    ("image/jpeg" :> ".jpg")
    @@ ("image/png" :> ".png")
    @@ ("image/gif" :> ".gif")
    @@ ("image/webp" :> ".webp")
    @@ ("image/bmp" :> ".bmp")
    @@ ("audio/mpeg" :> ".mp3")
    @@ ("audio/mp4" :> ".m4a")
    @@ ("audio/ogg" :> ".ogg")
    @@ ("audio/wav" :> ".wav")
    @@ ("audio/x-wav" :> ".wav")
    @@ ("video/mp4" :> ".mp4")
    @@ ("video/webm" :> ".webm")
    @@ ("application/pdf" :> ".pdf")
    @@ ("application/msword" :> ".doc")
    @@ ("application/vnd.openxmlformats-officedocument.wordprocessingml.document" :> ".docx")
    @@ ("application/vnd.ms-excel" :> ".xls")
    @@ ("application/vnd.openxmlformats-officedocument.spreadsheetml.sheet" :> ".xlsx")
    @@ ("application/vnd.ms-powerpoint" :> ".ppt")
    @@ ("application/vnd.openxmlformats-officedocument.presentationml.presentation" :> ".pptx")
    @@ ("text/plain" :> ".txt")
    @@ ("application/zip" :> ".zip")
    @@ ("application/x-rar-compressed" :> ".rar")
    @@ ("application/octet-stream" :> ".bin")

\* type_map of _get_extension
KindExtensions ==
    ("image" :> ".jpg")
    @@ ("file" :> ".bin")
    @@ ("audio" :> ".mp3")
    @@ ("video" :> ".mp4")
    @@ ("media" :> ".bin")

\* a lookup by message type that has no default
GetExtensionNoDefault(msg_type, mime_type) ==
    IF mime_type \notin {None, ""} /\ mime_type \in DOMAIN MimeExtensions
    THEN MimeExtensions[mime_type]
    ELSE IF msg_type \in DOMAIN KindExtensions THEN KindExtensions[msg_type] ELSE ""

\* _get_extension: the MIME table when there is a MIME type with an entry,
\* else the table of message types, else ".bin"
GetExtension(msg_type, mime_type) ==
    IF mime_type \notin {None, ""} /\ mime_type \in DOMAIN MimeExtensions
    THEN MimeExtensions[mime_type]
    ELSE IF msg_type \in DOMAIN KindExtensions THEN KindExtensions[msg_type] ELSE ".bin"

\* Path(file_name).name: the last segment that is neither empty nor "."
PathName(file_name) ==
    LET segments == SelectSeq(SplitAt(file_name, "/"), LAMBDA x : x # <<>> /\ x # <<".">>)
    IN IF segments = <<>> THEN <<>> ELSE segments[Len(segments)]

\* Path(file_name).suffix: from the last dot of the name on, unless that dot
\* is the first or the last character of the name or there is none
PathSuffix(file_name) ==
    LET name == PathName(file_name)
        dots == {k \in 1..Len(name) : name[k] = "."}
        last == CHOOSE k \in dots : \A j \in dots : j <= k
    IN IF dots = {} THEN <<>>
       ELSE IF 1 < last /\ last < Len(name) THEN SubSeq(name, last, Len(name)) ELSE <<>>

\* an extension taken from the MIME type or the message type even when the
\* file name has one
ResolveExtensionIgnoringName(file_name, msg_type, mime_type) ==
    <<GetExtension(msg_type, mime_type)>>

\* lines 258-266: the suffix of the declared file name, else _get_extension
ResolveExtension(file_name, msg_type, mime_type) ==
    LET ext == IF file_name # NoName THEN PathSuffix(file_name) ELSE <<>>
    IN IF ext # <<>> THEN ext ELSE <<GetExtension(msg_type, mime_type)>>

\* a sanitizer that also drops the dots
RECURSIVE SafeNameNoDots(_)
SafeNameNoDots(file_name) ==
    IF file_name = <<>> THEN <<>>
    ELSE (IF Head(file_name) \in AlnumChars \cup (KeptSpecials \ {"."})
          THEN <<Head(file_name)>> ELSE <<>>) \o SafeNameNoDots(Tail(file_name))

\* "".join(c for c in file_name if c.isalnum() or c in '._-')
RECURSIVE SafeName(_)
SafeName(file_name) ==
    IF file_name = <<>> THEN <<>>
    ELSE (IF Head(file_name) \in AlnumChars \/ Head(file_name) \in KeptSpecials
          THEN <<Head(file_name)>> ELSE <<>>) \o SafeName(Tail(file_name))

MediaDir == << <<"media">> >>           \* self._workspace / "media"

\* dir / name for a name without separator: pathlib drops an empty or "."
\* segment and keeps ".."
JoinPath(dir, name) ==
    IF name = <<>> \/ name = <<".">> THEN dir ELSE Append(dir, name)

\* lines 272-278: the path the bytes are written to
TargetPath(file_name, file_key, ext) ==
    IF file_name # NoName
    THEN JoinPath(MediaDir, SafeName(file_name))
    ELSE JoinPath(MediaDir, <<Key16(file_key)>> \o ext)

\* the place a path names once the file system has followed its ".."
RECURSIVE Resolve(_)
Resolve(path) ==
    IF path = <<>> THEN <<>>
    ELSE LET before == Resolve(SubSeq(path, 1, Len(path) - 1))
             last == path[Len(path)]
         IN IF last = <<".", ".">>
            THEN (IF before = <<>> THEN <<>> ELSE SubSeq(before, 1, Len(before) - 1))
            ELSE Append(before, last)

\* the places that are directories: the workspace and its media directory
IsDirectory(place) == place = <<>> \/ place = MediaDir

StrictlyInside(place, dir) ==
    /\ Len(place) > Len(dir)
    /\ SubSeq(place, 1, Len(dir)) = dir

\* what _download_file returns to _on_message for a resource key: None
\* (here <<>>) or the path derived from the key
DownloadResults(file_key, msg_type) ==
    {<<>>, TargetPath(NoName, file_key, ResolveExtension(NoName, msg_type, None))}

(***************************************************************************)
(* Lifecycle: start() and stop()                                           *)
(***************************************************************************)
Configs == [sdk : BOOLEAN, credentials : BOOLEAN]

\* a start() that sets the flag and the loop before it looks at the
\* configuration
StartFlagFirst ==
    /\ start_pc = "idle"
    /\ running' = TRUE
    /\ loop' = "running"
    /\ IF ~config.sdk \/ ~config.credentials
       THEN /\ start_pc' = "returned"
            /\ UNCHANGED <<client, ws_client, ws_thread>>
       ELSE /\ client' = TRUE
            /\ ws_client' = TRUE
            /\ ws_thread' = "started"
            /\ start_pc' = "keepalive"
    /\ UNCHANGED <<config, inbound, transfer>>
\* start() up to its first await: refuse, or set everything up and enter the
\* keep-alive loop
Start ==
    /\ start_pc = "idle"
    /\ IF ~config.sdk \/ ~config.credentials
       THEN /\ start_pc' = "returned"
            /\ UNCHANGED <<running, loop, client, ws_client, ws_thread>>
       ELSE /\ running' = TRUE
            /\ loop' = "running"
            /\ client' = TRUE
            /\ ws_client' = TRUE
            /\ ws_thread' = "started"
            /\ start_pc' = "keepalive"
    /\ UNCHANGED <<config, inbound, transfer>>

\* a keep-alive loop that also ends when the transport thread has ended
KeepAliveExitOnThreadDeath ==
    /\ start_pc = "keepalive"
    /\ loop = "running"
    /\ ~running \/ ws_thread = "died"
    /\ start_pc' = "returned"
    /\ UNCHANGED <<config, running, loop, client, ws_client, ws_thread, inbound, transfer>>
\* while self._running: await asyncio.sleep(1) -- the loop is left once the
\* flag is false
KeepAliveExit ==
    /\ start_pc = "keepalive"
    /\ loop = "running"
    /\ ~running
    /\ start_pc' = "returned"
    /\ UNCHANGED <<config, running, loop, client, ws_client, ws_thread, inbound, transfer>>

\* a stop() that also ends the coroutines suspended on offloaded I/O
StopCancelling ==
    /\ loop # "closed"
    /\ running' = FALSE
    /\ ws_thread' = IF ws_client THEN "stop_requested" ELSE ws_thread
    /\ handlers' = [k \in 1..Len(handlers) |->
           IF handlers[k].pc \in {"reacting", "downloading"}
           THEN [handlers[k] EXCEPT !.pc = "done", !.outcome = "cancelled"]
           ELSE handlers[k]]
    /\ UNCHANGED <<config, loop, client, ws_client, start_pc,
                   processed_message_ids, bus, recorded, evicted, dropped, transfer>>

\* stop(): clear the flag and, if there is a transport client, ask it to
\* halt; an exception of ws_client.stop() is logged.  Whether the thread
\* halts is the SDK's business: events may still be delivered.
Stop ==
    /\ loop # "closed"
    /\ running' = FALSE
    /\ ws_thread' = IF ws_client THEN "stop_requested" ELSE ws_thread
    /\ UNCHANGED <<config, loop, client, ws_client, start_pc, inbound, transfer>>

\* the host program ends the event loop after start() has returned
LoopCloses ==
    /\ start_pc = "returned"
    /\ loop = "running"
    /\ loop' = "closed"
    /\ UNCHANGED <<config, running, client, ws_client, ws_thread, start_pc, inbound, transfer>>

(***************************************************************************)
(* Inbound path: _on_message_sync and the _on_message coroutine            *)
(***************************************************************************)
NewHandler(e) ==
    [ev |-> e, pc |-> "scheduled", outcome |-> "pending", first_seen |-> FALSE, rivals |-> 0,
     reactions |-> 0, fetches |-> 0, reaction |-> "none", file_path |-> <<>>,
     running_at |-> <<>>]

Done(hr, outcome) == [hr EXCEPT !.pc = "done", !.outcome = outcome]

\* a variant that notes the identifier of an event it cannot schedule
OnMessageSyncRecording(e) ==
    /\ Len(handlers) + Len(dropped) < MaxDeliveries
    /\ IF loop = "running"
       THEN /\ handlers' = Append(handlers, NewHandler(e))
            /\ UNCHANGED <<dropped, processed_message_ids>>
       ELSE /\ dropped' = Append(dropped, e)
            /\ processed_message_ids' = RecordId(processed_message_ids, e.message_id)
            /\ UNCHANGED handlers
    /\ UNCHANGED <<lifecycle, bus, recorded, evicted, transfer>>

\* _on_message_sync, on the transport thread: schedule the coroutine on the
\* loop if there is one and it runs, else drop the event
OnMessageSync(e) ==
    /\ Len(handlers) < MaxDeliveries
    /\ IF loop = "running"
       THEN handlers' = Append(handlers, NewHandler(e))
       ELSE UNCHANGED handlers
    /\ UNCHANGED <<lifecycle, processed_message_ids, bus, recorded, evicted, dropped, transfer>>

\* the same call with a note of the event when it is not scheduled
OnMessageSyncNoted(e) ==
    /\ Len(handlers) + Len(dropped) < MaxDeliveries
    /\ IF loop = "running"
       THEN handlers' = Append(handlers, NewHandler(e)) /\ UNCHANGED dropped
       ELSE dropped' = Append(dropped, e) /\ UNCHANGED handlers
    /\ UNCHANGED <<lifecycle, processed_message_ids, bus, recorded, evicted, transfer>>

\* a handoff that is tried a second time when the bus raises
HandoffRetrying(h, hr, parts, paths) ==
    \E returns \in BOOLEAN :
        /\ bus' = IF returns THEN Append(bus, BusMessage(hr.ev, parts, paths))
                  ELSE bus \o <<BusMessage(hr.ev, parts, paths), BusMessage(hr.ev, parts, paths)>>
        /\ handlers' = [handlers EXCEPT
               ![h] = Done(hr, IF returns THEN "dispatched" ELSE "handoff_failed")]
\* await self._handle_message(...): the call is the dispatch; it returns or
\* raises, and the outer except logs what it raises
Handoff(h, hr, parts, paths) ==
    /\ bus' = Append(bus, BusMessage(hr.ev, parts, paths))
    /\ \E returns \in BOOLEAN :
           handlers' = [handlers EXCEPT
               ![h] = Done(hr, IF returns THEN "dispatched" ELSE "handoff_failed")]

\* lines 699-763 for a payload that decodes, up to the next await that
\* suspends: hand a text message over, or start the download of a resource
HandleDecoded(h, hr) ==
    LET ev == hr.ev
        key == ResourceKey(ev.content, ev.message_type)
    IN IF ev.message_type = "text"
       THEN Handoff(h, hr, TextParts(ev.content), <<>>)
       ELSE IF key # Absent /\ client
       THEN /\ handlers' = [handlers EXCEPT ![h] = [hr EXCEPT !.pc = "downloading",
                                                               !.fetches = @ + 1]]
            /\ UNCHANGED bus
       ELSE Handoff(h, hr,
                    MediaParts(ev.message_type, key # Absent, <<>>) \o CaptionParts(ev.content),
                    <<>>)

\* a variant in which the exception of a malformed payload is not contained
\* and ends every coroutine in flight
HandleContentEscaping(h, hr) ==
    IF ParseRaises(hr.ev.content)
    THEN /\ handlers' = [k \in 1..Len(handlers) |->
                 IF k = h THEN Done(hr, "error")
                 ELSE IF handlers[k].pc # "done" THEN Done(handlers[k], "error")
                 ELSE handlers[k]]
         /\ UNCHANGED bus
    ELSE HandleDecoded(h, hr)

\* lines 695-763 from the return of _add_reaction: an exception of the
\* decoding ends this coroutine in the outer except, which logs it
HandleContent(h, hr) ==
    IF ParseRaises(hr.ev.content)
    THEN /\ handlers' = [handlers EXCEPT ![h] = Done(hr, "error")]
         /\ UNCHANGED bus
    ELSE HandleDecoded(h, hr)

\* a variant without the check of the sender type
RecordAndReactNoSkip(h, hr) ==
    LET id == hr.ev.message_id
        grown == RecordId(processed_message_ids, id)
        kept == TrimCache(grown)
        seen == [hr EXCEPT !.first_seen = TRUE]
    IN /\ processed_message_ids' = kept
       /\ recorded' = IF grown # processed_message_ids THEN Append(recorded, id) ELSE recorded
       /\ evicted' = evicted \o Popped(grown, kept)
       /\ IF client
          THEN /\ handlers' = [handlers EXCEPT ![h] = [seen EXCEPT !.pc = "reacting",
                                                                    !.reactions = @ + 1]]
               /\ UNCHANGED bus
          ELSE HandleContent(h, seen)
\* lines 676-693: insert the identifier, trim the cache, skip the bot's own
\* messages, and call _add_reaction, which suspends on run_in_executor when
\* there is a client
RecordAndReact(h, hr) ==
    LET id == hr.ev.message_id
        grown == RecordId(processed_message_ids, id)
        kept == TrimCache(grown)
        seen == [hr EXCEPT !.first_seen = TRUE]
    IN /\ processed_message_ids' = kept
       /\ recorded' = IF grown # processed_message_ids THEN Append(recorded, id) ELSE recorded
       /\ evicted' = evicted \o Popped(grown, kept)
       /\ IF seen.ev.sender_type = "bot"
          THEN /\ handlers' = [handlers EXCEPT ![h] = Done(seen, "bot")]
               /\ UNCHANGED bus
          ELSE IF client
          THEN /\ handlers' = [handlers EXCEPT ![h] = [seen EXCEPT !.pc = "reacting",
                                                                    !.reactions = @ + 1]]
               /\ UNCHANGED bus
          ELSE HandleContent(h, seen)

\* a variant with a suspension point between the membership check and the
\* insertion
OnMessageBeginSuspending(h) ==
    /\ loop = "running"
    /\ h \in 1..Len(handlers)
    /\ \/ /\ handlers[h].pc = "scheduled"
          /\ handlers' = [handlers EXCEPT ![h] =
                 IF SeenBefore(processed_message_ids, handlers[h].ev.message_id)
                 THEN Done(handlers[h], "duplicate")
                 ELSE [handlers[h] EXCEPT !.pc = "checked"]]
          /\ UNCHANGED <<processed_message_ids, recorded, evicted, bus>>
       \/ /\ handlers[h].pc = "checked"
          /\ RecordAndReact(h, handlers[h])
    /\ UNCHANGED <<lifecycle, dropped, transfer>>

\* lines 667-693, the first run of the coroutine: the dedup check, and for an
\* identifier not seen before everything up to the first suspension
OnMessageBegin(h) ==
    /\ loop = "running"
    /\ h \in 1..Len(handlers)
    /\ handlers[h].pc = "scheduled"
    /\ LET id == handlers[h].ev.message_id
           pending == {k \in 1..Len(handlers) :
                          /\ k # h
                          /\ handlers[k].pc = "scheduled"
                          /\ handlers[k].ev.message_id = id}
           hr == [handlers[h] EXCEPT !.rivals = Cardinality(pending)]
       IN IF SeenBefore(processed_message_ids, id)
          THEN /\ handlers' = [handlers EXCEPT ![h] = Done(hr, "duplicate")]
               /\ UNCHANGED <<processed_message_ids, recorded, evicted, bus>>
          ELSE RecordAndReact(h, hr)
    /\ UNCHANGED <<lifecycle, dropped, transfer>>

ReactionOutcomes == {"ok", "failed", "raised"}

\* a variant in which a reaction that fails ends the coroutine
OnMessageAfterReactionStrict(h) ==
    /\ loop = "running"
    /\ h \in 1..Len(handlers)
    /\ handlers[h].pc = "reacting"
    /\ \E reaction \in ReactionOutcomes :
           IF reaction = "ok"
           THEN HandleContent(h, [handlers[h] EXCEPT !.reaction = reaction,
                                                     !.running_at = Append(@, running)])
           ELSE /\ handlers' = [handlers EXCEPT
                        ![h] = Done([handlers[h] EXCEPT !.reaction = reaction], "error")]
                /\ UNCHANGED bus
    /\ UNCHANGED <<lifecycle, processed_message_ids, recorded, evicted, dropped, transfer>>

\* _add_reaction_sync has returned (every outcome is logged and swallowed
\* there) and the coroutine goes on with the content
OnMessageAfterReaction(h) ==
    /\ loop = "running"
    /\ h \in 1..Len(handlers)
    /\ handlers[h].pc = "reacting"
    /\ \E reaction \in ReactionOutcomes : HandleContent(h, handlers[h])
    /\ UNCHANGED <<lifecycle, processed_message_ids, recorded, evicted, dropped, transfer>>

\* the same step with a note of the outcome of the reaction and of the
\* running flag in the handler's record
OnMessageAfterReactionNoted(h) ==
    /\ loop = "running"
    /\ h \in 1..Len(handlers)
    /\ handlers[h].pc = "reacting"
    /\ \E reaction \in ReactionOutcomes :
           HandleContent(h, [handlers[h] EXCEPT !.reaction = reaction,
                                                !.running_at = Append(@, running)])
    /\ UNCHANGED <<lifecycle, processed_message_ids, recorded, evicted, dropped, transfer>>

\* _download_file has returned a path or None: lines 723-763
OnMessageAfterDownload(h) ==
    /\ loop = "running"
    /\ h \in 1..Len(handlers)
    /\ handlers[h].pc = "downloading"
    /\ LET ev == handlers[h].ev
       IN \E file_path \in DownloadResults(ResourceKey(ev.content, ev.message_type),
                                            ev.message_type) :
              Handoff(h, [handlers[h] EXCEPT !.file_path = file_path],
                      MediaParts(ev.message_type, TRUE, file_path) \o CaptionParts(ev.content),
                      IF file_path # <<>> THEN <<file_path>> ELSE <<>>)
    /\ UNCHANGED <<lifecycle, processed_message_ids, recorded, evicted, dropped, transfer>>

\* the same step with a note of the running flag in the handler's record
OnMessageAfterDownloadNoted(h) ==
    /\ loop = "running"
    /\ h \in 1..Len(handlers)
    /\ handlers[h].pc = "downloading"
    /\ LET ev == handlers[h].ev
       IN \E file_path \in DownloadResults(ResourceKey(ev.content, ev.message_type),
                                            ev.message_type) :
              Handoff(h, [handlers[h] EXCEPT !.file_path = file_path,
                                             !.running_at = Append(@, running)],
                      MediaParts(ev.message_type, TRUE, file_path) \o CaptionParts(ev.content),
                      IF file_path # <<>> THEN <<file_path>> ELSE <<>>)
    /\ UNCHANGED <<lifecycle, processed_message_ids, recorded, evicted, dropped, transfer>>

\* no download, upload or send is under way
TransferIdle ==
    /\ downloads = <<>>
    /\ media_files = {}
    /\ uploads = <<>>
    /\ sends = <<>>
    /\ requests = <<>>
    /\ renders = <<>>

(***************************************************************************)
(* The adapter from construction (__init__), with any configuration        *)
(***************************************************************************)
Init ==
    /\ config \in Configs
    /\ running = FALSE
    /\ loop = "none"
    /\ client = FALSE
    /\ ws_client = FALSE
    /\ ws_thread = "none"
    /\ start_pc = "idle"
    /\ processed_message_ids = <<>>
    /\ handlers = <<>>
    /\ bus = <<>>
    /\ recorded = <<>>
    /\ evicted = <<>>
    /\ dropped = <<>>
    /\ TransferIdle

HandlerStep ==
    \E h \in 1..MaxDeliveries :
        \/ OnMessageBegin(h)
        \/ OnMessageAfterReaction(h)
        \/ OnMessageAfterDownload(h)

HandlerStepNoted ==
    \E h \in 1..MaxDeliveries :
        \/ OnMessageBegin(h)
        \/ OnMessageAfterReactionNoted(h)
        \/ OnMessageAfterDownloadNoted(h)

Next ==
    \/ Start
    \/ KeepAliveExit
    \/ Stop
    \/ LoopCloses
    \/ \E e \in RouterEvents : OnMessageSync(e)
    \/ HandlerStep

Spec == Init /\ [][Next]_vars

(***************************************************************************)
(* The adapter with a full dedup cache: the state reached when, after a    *)
(* successful start(), event 1 (a user's text) was dispatched and events   *)
(* 2..1000 (the bot's own messages) were handled, one after the other.     *)
(* Their coroutines have ended; the deliveries that follow carry           *)
(* identifier 1 or a fresh one.                                            *)
(***************************************************************************)
NumFresh == 2               \* fresh identifiers delivered to the full cache

FullCache == [i \in 1..DedupCapacity |-> i]
FirstEvent == Event(1, "user", "ou_user", "p2p", "text", TextHello)
FullCacheIds == {1} \cup (DedupCapacity + 1)..(DedupCapacity + NumFresh)
FullCacheEvents ==
    {Event(i, "user", "ou_user", "p2p", "text", TextHello) : i \in FullCacheIds}
    \cup BotEvents(FullCacheIds)
    \cup {Event(DedupCapacity + 1, "user", "ou_user", "p2p", "image", ImageWithKey)}

InitFullCache ==
    /\ config = [sdk |-> TRUE, credentials |-> TRUE]
    /\ running = TRUE
    /\ loop = "running"
    /\ client = TRUE
    /\ ws_client = TRUE
    /\ ws_thread = "started"
    /\ start_pc = "keepalive"
    /\ processed_message_ids = FullCache
    /\ handlers = <<>>
    /\ bus = <<BusMessage(FirstEvent, TextParts(FirstEvent.content), <<>>)>>
    /\ recorded = FullCache
    /\ evicted = <<>>
    /\ dropped = <<>>
    /\ TransferIdle

NextFullCache ==
    \/ \E e \in FullCacheEvents : OnMessageSync(e)
    \/ HandlerStep

SpecFullCache == InitFullCache /\ [][NextFullCache]_vars

(***************************************************************************)
(* Properties of the dedup cache and of the inbound path                   *)
(***************************************************************************)
Hs == 1..Len(handlers)
IdOf(h) == handlers[h].ev.message_id
DispatchCount(i) == Cardinality({k \in 1..Len(bus) : bus[k].metadata.message_id = i})
Dispatched(h) == handlers[h].outcome \in {"dispatched", "handoff_failed"}
Passes(i) == Cardinality({h \in Hs : IdOf(h) = i /\ handlers[h].first_seen})
DeliveredIds == {IdOf(h) : h \in Hs}

C2_CacheBounded == Len(processed_message_ids) <= DedupCapacity

\* C2 witness: the cache is full after an eviction has taken place.
C2_Witness ==
    /\ evicted # <<>>
    /\ Len(processed_message_ids) = DedupCapacity

C4_CheckAndInsertAtomic ==
    /\ \A i \in DeliveredIds :
           /\ Passes(i) = Count(i, recorded)
           /\ Passes(i) <= 1 + Count(i, evicted)
    /\ \A h \in Hs :
           handlers[h].pc # "scheduled" =>
               (handlers[h].first_seen \/ handlers[h].outcome = "duplicate")

\* C4 witness: two handlers of one identifier were scheduled together; one
\* passed the check while the other was still waiting, and the other was
\* then dropped as a duplicate.
C4_Witness ==
    \E h1 \in Hs : \E h2 \in Hs :
        /\ h1 # h2
        /\ IdOf(h1) = IdOf(h2)
        /\ handlers[h1].first_seen
        /\ handlers[h1].rivals >= 1
        /\ handlers[h2].outcome = "duplicate"

\* a step of one of the scheduled coroutines
HandlerProgress == Len(handlers') = Len(handlers) /\ handlers' # handlers

Failed(h) == handlers[h].outcome \in {"error", "handoff_failed"}

\* C9: a failure stays in its event's handler: a step of a handler, failing
\* or not, changes neither the running flag nor anything else of the adapter's
\* lifecycle, and touches no other handler; a handler ends in an error only
\* over its own payload, and every handler of a first-seen user event whose
\* payload decodes reaches the bus handoff, whatever happened to the others.
C9_FailuresContained ==
    /\ [][HandlerProgress =>
             /\ UNCHANGED <<config, running, loop, client, ws_client, ws_thread, start_pc>>
             /\ \E h \in Hs : \A k \in Hs \ {h} : handlers'[k] = handlers[k]]_vars
    /\ [](\A h \in Hs :
             /\ handlers[h].outcome = "error" => ParseRaises(handlers[h].ev.content)
             /\ (/\ handlers[h].pc = "done"
                 /\ handlers[h].first_seen
                 /\ handlers[h].ev.sender_type # "bot"
                 /\ ~ParseRaises(handlers[h].ev.content)) => Dispatched(h))

\* C9 witness: the adapter is running, one event's handler has failed (a
\* malformed payload or a failing bus handoff) and the handler of an event
\* with another identifier, delivered later, has dispatched it.
C9_Witness ==
    /\ running
    /\ start_pc = "keepalive"
    /\ \E h1 \in Hs : \E h2 \in Hs :
           /\ h1 < h2
           /\ IdOf(h1) # IdOf(h2)
           /\ Failed(h1)
           /\ handlers[h2].outcome = "dispatched"

\* C10 as stated: an identifier is in the dedup cache only if an event with
\* that identifier was processed successfully, that is dispatched to the bus.
C10_MemberOnlyIfDispatched ==
    \A i \in Range(processed_message_ids) :
        \E h \in Hs : IdOf(h) = i /\ handlers[h].outcome = "dispatched"

\* C10 amended: the entry is created when the identifier is first seen, before
\* the bot check and all processing: an identifier is in the cache only if a
\* handler passed the check for it, every handler that passed the check has
\* its identifier in the cache (or evicted from it) whether or not a dispatch
\* follows, and an event that was skipped as the bot's or failed before the
\* handoff is not processed on redelivery while its identifier is in the cache.
C10_RecordedWhenFirstSeen ==
    /\ \A i \in Range(processed_message_ids) :
           \E h \in Hs : IdOf(h) = i /\ handlers[h].first_seen
    /\ \A h \in Hs :
           /\ handlers[h].first_seen =>
                  IdOf(h) \in Range(processed_message_ids) \cup Range(evicted)
           /\ (handlers[h].outcome \in {"bot", "error"} /\ IdOf(h) \notin Range(evicted))
                  => DispatchCount(IdOf(h)) = 0

\* C10 witness: an event skipped as the bot's or failed over its payload was
\* delivered again from a user with a payload that decodes, and the second
\* delivery was dropped as a duplicate.
C10_Witness ==
    \E h1 \in Hs : \E h2 \in Hs :
        /\ h1 < h2
        /\ IdOf(h1) = IdOf(h2)
        /\ handlers[h1].outcome \in {"bot", "error"}
        /\ handlers[h2].ev.sender_type = "user"
        /\ ~ParseRaises(handlers[h2].ev.content)
        /\ handlers[h2].outcome = "duplicate"
        /\ DispatchCount(IdOf(h1)) = 0

(***************************************************************************)
(* _download_file as a coroutine                                           *)
(***************************************************************************)
NewDownload(file_key, msg_type, mime_type, file_name) ==
    [pc |-> "called", file_key |-> file_key, msg_type |-> msg_type,
     mime_type |-> mime_type, file_name |-> file_name,
     response |-> "", disk_ok |-> FALSE, io |-> "", safe_name |-> <<>>, ext |-> <<>>,
     target |-> <<>>,
     built |-> FALSE, result |-> <<>>]

\* lines 215-229: no client, or the get-resource call is handed to the executor
DownloadCall(d) ==
    /\ d \in 1..Len(downloads)
    /\ downloads[d].pc = "called"
    /\ downloads' = [downloads EXCEPT
           ![d] = IF client THEN [@ EXCEPT !.pc = "fetching"]
                  ELSE [@ EXCEPT !.pc = "returned"]]
    /\ UNCHANGED <<lifecycle, inbound, media_files, posting, rendering>>

\* what the get-resource call gives: an exception, a response that is no
\* success, a success whose file is None or b"" (falsy), a success whose
\* file is a stream holding no bytes (an object, so truthy), a success with bytes
ResourceResponses == {"raised", "not_success", "empty_file", "empty_stream", "file"}

\* a store that opens the file for exclusive creation: a download whose path
\* already holds a file fails
DownloadStoreExclusive(d, response, mkdir_ok, write_ok) ==
    LET dl == [downloads[d] EXCEPT !.pc = "returned", !.response = response,
                                   !.disk_ok = (mkdir_ok /\ write_ok)]
        ext == ResolveExtension(dl.file_name, dl.msg_type, dl.mime_type)
        file_path == TargetPath(dl.file_name, dl.file_key, ext)
        built == [dl EXCEPT !.built = TRUE, !.target = file_path, !.ext = ext,
                            !.safe_name = IF dl.file_name # NoName
                                          THEN SafeName(dl.file_name) ELSE <<>>]
    IN IF ~mkdir_ok
       THEN /\ downloads' = [downloads EXCEPT ![d] = [dl EXCEPT !.io = "mkdir_failed"]]
            /\ UNCHANGED media_files
       ELSE IF \/ IsDirectory(Resolve(file_path))
               \/ ~write_ok
               \/ \E f \in media_files : f.path = Resolve(file_path)
       THEN /\ downloads' = [downloads EXCEPT ![d] = [built EXCEPT !.io = "write_failed"]]
            /\ UNCHANGED media_files
       ELSE /\ downloads' = [downloads EXCEPT ![d] =
                                 [built EXCEPT !.io = "written", !.result = file_path]]
            /\ media_files' = media_files
                                  \cup {[path |-> Resolve(file_path), by |-> d,
                                         empty |-> (response = "empty_stream"),
                                         writes |-> 1]}

\* lines 238-289 for a successful response whose file is truthy: resolve the
\* extension, create the directory, build the path and write the bytes; any
\* exception (mkdir or open failing, the path naming a directory) gives None
DownloadStore(d, response, mkdir_ok, write_ok) ==
    LET dl == [downloads[d] EXCEPT !.pc = "returned", !.response = response,
                                   !.disk_ok = (mkdir_ok /\ write_ok)]
        ext == ResolveExtension(dl.file_name, dl.msg_type, dl.mime_type)
        file_path == TargetPath(dl.file_name, dl.file_key, ext)
        built == [dl EXCEPT !.built = TRUE, !.target = file_path, !.ext = ext,
                            !.safe_name = IF dl.file_name # NoName
                                          THEN SafeName(dl.file_name) ELSE <<>>]
    IN IF ~mkdir_ok
       THEN /\ downloads' = [downloads EXCEPT ![d] = [dl EXCEPT !.io = "mkdir_failed"]]
            /\ UNCHANGED media_files
       ELSE IF IsDirectory(Resolve(file_path)) \/ ~write_ok
       THEN /\ downloads' = [downloads EXCEPT ![d] = [built EXCEPT !.io = "write_failed"]]
            /\ UNCHANGED media_files
       ELSE /\ downloads' = [downloads EXCEPT ![d] =
                                 [built EXCEPT !.io = "written", !.result = file_path]]
            /\ media_files' = {f \in media_files : f.path # Resolve(file_path)}
                                  \cup {[path |-> Resolve(file_path), by |-> d,
                                         empty |-> (response = "empty_stream"),
                                         writes |-> 1 + Cardinality({f \in media_files :
                                                        f.path = Resolve(file_path)})]}

\* the get-resource call has returned or raised and the coroutine goes on
DownloadResume(d) ==
    /\ d \in 1..Len(downloads)
    /\ downloads[d].pc = "fetching"
    /\ \E response \in ResourceResponses :
           IF response \in {"file", "empty_stream"}
           THEN \E mkdir_ok \in BOOLEAN : \E write_ok \in BOOLEAN :
                    DownloadStore(d, response, mkdir_ok, write_ok)
           ELSE /\ downloads' = [downloads EXCEPT ![d] = [@ EXCEPT !.pc = "returned",
                                                                  !.response = response]]
                /\ UNCHANGED media_files
    /\ UNCHANGED <<lifecycle, inbound, posting, rendering>>

\* one call of _download_file by a started or an unstarted adapter, for any
\* declared file name (or none), message type and MIME type
InitDownload ==
    /\ config = [sdk |-> TRUE, credentials |-> TRUE]
    /\ client \in BOOLEAN
    /\ running = client
    /\ loop = IF client THEN "running" ELSE "none"
    /\ ws_client = client
    /\ ws_thread = IF client THEN "started" ELSE "none"
    /\ start_pc = IF client THEN "keepalive" ELSE "idle"
    /\ processed_message_ids = <<>>
    /\ handlers = <<>>
    /\ bus = <<>>
    /\ recorded = <<>>
    /\ evicted = <<>>
    /\ dropped = <<>>
    /\ media_files = {}
    /\ uploads = <<>>
    /\ sends = <<>>
    /\ requests = <<>>
    /\ renders = <<>>
    /\ \E file_name \in {NoName, TraversalName} \cup DeclaredNames(MaxNameLen) :
       \E msg_type \in {"image", "file", "sticker"} :
       \E mime_type \in {None, "", "image/png", "application/x-unknown"} :
           downloads = <<NewDownload("img_v2_key", msg_type, mime_type, file_name)>>

DownloadSlots == {1, 2}

NextDownload ==
    \/ \E d \in DownloadSlots : DownloadCall(d)
    \/ \E d \in DownloadSlots : DownloadResume(d)

SpecDownload == InitDownload /\ [][NextDownload]_vars

(***************************************************************************)
(* Properties of the download file naming                                  *)
(***************************************************************************)
Ds == 1..Len(downloads)
NamedAndBuilt(d) == downloads[d].built /\ downloads[d].file_name # NoName

\* out holds exactly the allowed characters of in, in the order of in
KeepsAllowedInOrder(out, in) ==
    LET allowed == {k \in 1..Len(in) : in[k] \in AlnumChars \cup KeptSpecials}
        rank(k) == Cardinality({j \in allowed : j <= k})
    IN /\ Len(out) = Cardinality(allowed)
       /\ \A k \in allowed : out[rank(k)] = in[k]

\* C5: for every declared file name, the path built from the sanitized name
\* names a place strictly inside the media directory, never the directory
\* itself or a place outside it.
C5_TargetStrictlyInsideMedia ==
    \A d \in Ds :
        NamedAndBuilt(d) => StrictlyInside(Resolve(downloads[d].target), MediaDir)

\* C6 as stated: the sanitized name keeps, in order, exactly the characters
\* that are alphanumeric or one of '.', '_', '-', and "../../etc/passwd"
\* sanitizes to "etcpasswd".
C6_SanitizesToEtcpasswd ==
    \A d \in Ds :
        NamedAndBuilt(d) =>
            /\ KeepsAllowedInOrder(downloads[d].safe_name, downloads[d].file_name)
            /\ downloads[d].file_name = TraversalName =>
                   downloads[d].safe_name = <<"e", "t", "c", "p", "a", "s", "s", "w", "d">>

\* C6 amended: the sanitized name keeps, in order, exactly the characters
\* that are alphanumeric or one of '.', '_', '-', so that "../../etc/passwd"
\* sanitizes to "....etcpasswd": its four dots are kept, its slashes dropped.
C6_SanitizeKeepsAllowedInOrder ==
    \A d \in Ds :
        NamedAndBuilt(d) =>
            /\ KeepsAllowedInOrder(downloads[d].safe_name, downloads[d].file_name)
            /\ downloads[d].file_name = TraversalName =>
                   downloads[d].safe_name =
                       <<".", ".", ".", ".", "e", "t", "c", "p", "a", "s", "s", "w", "d">>

\* C6 witness: the download of a resource declared as "../../etc/passwd" has
\* written its bytes under the sanitized name.
C6_Witness ==
    \E d \in Ds :
        /\ downloads[d].file_name = TraversalName
        /\ Len(downloads[d].safe_name) = 13
        /\ downloads[d].result = Append(MediaDir, downloads[d].safe_name)
        /\ \E f \in media_files : f.path = downloads[d].result

(***************************************************************************)
(* Upload: _upload_media and its two blocking helpers                      *)
(***************************************************************************)
ImageLimit == 10 * 1024 * 1024
FileLimit == 30 * 1024 * 1024

\* a local file as the helpers see it: the suffix of its path, whether it
\* exists and its size in bytes
LocalFile(suffix, exists, size) == [suffix |-> suffix, exists |-> exists, size |-> size]

\* str.lower() on the suffixes in use
Lower(suffix) ==
    CASE suffix = ".JPG" -> ".jpg"
      [] suffix = ".PDF" -> ".pdf"
      [] OTHER -> suffix

ImageExts == {".jpg", ".jpeg", ".png", ".gif", ".webp", ".bmp"}

Category(file) == IF Lower(file.suffix) \in ImageExts THEN "image" ELSE "file"

\* ext_to_type.get(ext, 'file'), then 'file' for the unsupported media formats
FileType(file) ==
    LET ext == Lower(file.suffix)
    IN CASE ext = ".opus" -> "opus"
         [] ext = ".mp4" -> "mp4"
         [] ext = ".pdf" -> "pdf"
         [] ext \in {".doc", ".docx"} -> "doc"
         [] ext \in {".xls", ".xlsx"} -> "xls"
         [] OTHER -> "file"

PrecheckUnlimited(file, limit) ==
    IF ~file.exists THEN "missing"
    ELSE IF file.size = 0 THEN "empty"
    ELSE "passed"

\* the checks both helpers make before they read the file
Precheck(file, limit) ==
    IF ~file.exists THEN "missing"
    ELSE IF file.size = 0 THEN "empty"
    ELSE IF file.size > limit THEN "too_large"
    ELSE "passed"

ReadOutcomes == {"content", "nothing", "raised"}
CreateResponses == {"success", "not_success", "raised"}

\* what a helper gives back: the key ("None" without one) and the request
\* it issued ("none" without one)
Uploaded(key, api) == [key |-> key, api |-> api]

UploadImageSync(file, read, response) ==
    IF ~client THEN Uploaded(None, "none")
    ELSE IF Precheck(file, ImageLimit) # "passed" THEN Uploaded(None, "none")
    ELSE IF read # "content" THEN Uploaded(None, "none")
    ELSE IF response # "success" THEN Uploaded(None, "image.create")
    ELSE Uploaded("img_uploaded", "image.create")

UploadFileSync(file, read, response) ==
    IF ~client THEN Uploaded(None, "none")
    ELSE IF Precheck(file, FileLimit) # "passed" THEN Uploaded(None, "none")
    ELSE IF read # "content" THEN Uploaded(None, "none")
    ELSE IF response # "success" THEN Uploaded(None, "file.create")
    ELSE Uploaded("file_uploaded", "file.create")

\* _upload_media once the executor has run the helper: (key, msg_type) or
\* nothing, with the request the helper issued
UploadMedia(file, read, response) ==
    LET helper == IF Category(file) = "image"
                  THEN UploadImageSync(file, read, response)
                  ELSE UploadFileSync(file, read, response)
    IN [result |-> IF helper.key # None THEN <<helper.key, Category(file)>> ELSE <<>>,
        api |-> helper.api]

\* a request to the platform: by a call of _upload_media or of send, for the
\* media item it is about (0 for the text card)
Request(api, by, call, item, msg_type) ==
    [api |-> api, by |-> by, call |-> call, item |-> item, msg_type |-> msg_type]

Issue(reqs, api, by, call, item, msg_type) ==
    IF api = "none" THEN reqs ELSE Append(reqs, Request(api, by, call, item, msg_type))

NewUpload(file) ==
    [pc |-> "called", file |-> file, category |-> "", read |-> "", result |-> <<>>]

\* lines 519-529: the category picks the helper, handed to the executor
UploadCall(u) ==
    /\ u \in 1..Len(uploads)
    /\ uploads[u].pc = "called"
    /\ uploads' = [uploads EXCEPT ![u] = [@ EXCEPT !.pc = "uploading",
                                                  !.category = Category(uploads[u].file)]]
    /\ UNCHANGED <<lifecycle, inbound, fetching, sends, requests, rendering>>

\* the helper has run in the executor and _upload_media returns
UploadResume(u) ==
    /\ u \in 1..Len(uploads)
    /\ uploads[u].pc = "uploading"
    /\ \E read \in ReadOutcomes : \E response \in CreateResponses :
           LET up == UploadMedia(uploads[u].file, read, response)
           IN /\ uploads' = [uploads EXCEPT ![u] = [@ EXCEPT !.pc = "returned",
                                                            !.read = read,
                                                            !.result = up.result]]
              /\ requests' = Issue(requests, up.api, "upload", u, 0, FileType(uploads[u].file))
    /\ UNCHANGED <<lifecycle, inbound, fetching, sends, rendering>>

UploadSuffixes == {".png", ".JPG", ".pdf", ".mp3"}
UploadSizes == {0, 1, ImageLimit, ImageLimit + 1, FileLimit, FileLimit + 1}

UploadFiles ==
    {LocalFile(x, TRUE, n) : x \in UploadSuffixes, n \in UploadSizes}
    \cup {LocalFile(x, FALSE, 0) : x \in UploadSuffixes}

\* one call of _upload_media by a started or an unstarted adapter, for a
\* file of either category, missing or of a size around the limits
InitUpload ==
    /\ config = [sdk |-> TRUE, credentials |-> TRUE]
    /\ client \in BOOLEAN
    /\ running = client
    /\ loop = IF client THEN "running" ELSE "none"
    /\ ws_client = client
    /\ ws_thread = IF client THEN "started" ELSE "none"
    /\ start_pc = IF client THEN "keepalive" ELSE "idle"
    /\ processed_message_ids = <<>>
    /\ handlers = <<>>
    /\ bus = <<>>
    /\ recorded = <<>>
    /\ evicted = <<>>
    /\ dropped = <<>>
    /\ downloads = <<>>
    /\ media_files = {}
    /\ sends = <<>>
    /\ requests = <<>>
    /\ renders = <<>>
    /\ \E file \in UploadFiles : uploads = <<NewUpload(file)>>

UploadSlots == {1, 2}

NextUpload ==
    \/ \E u \in UploadSlots : UploadCall(u)
    \/ \E u \in UploadSlots : UploadResume(u)

SpecUpload == InitUpload /\ [][NextUpload]_vars

(***************************************************************************)
(* Properties of the upload preconditions                                  *)
(***************************************************************************)
Us == 1..Len(uploads)

CreateRequestsOf(u) ==
    {k \in 1..Len(requests) :
        /\ requests[k].by = "upload"
        /\ requests[k].call = u
        /\ requests[k].api \in {"image.create", "file.create"}}

ViolatesPrecondition(file, category) ==
    \/ ~file.exists
    \/ file.size = 0
    \/ category = "image" /\ file.size > 10 * 1024 * 1024
    \/ category = "file" /\ file.size > 30 * 1024 * 1024

\* C7: an upload of a missing file, of a 0-byte file, of an image above
\* 10 MiB or of a generic file above 30 MiB returns nothing and issues no
\* create-image or create-file request; an image of exactly 10 MiB (and a
\* generic file of exactly 30 MiB) is not rejected: its request is issued.
C7_RejectedBeforeAnyRequest ==
    \A u \in Us :
        uploads[u].pc = "returned" =>
            LET file == uploads[u].file
                category == uploads[u].category
            IN /\ ViolatesPrecondition(file, category) =>
                      uploads[u].result = <<>> /\ CreateRequestsOf(u) = {}
               /\ (/\ client
                   /\ file.exists
                   /\ uploads[u].read = "content"
                   /\ \/ category = "image" /\ file.size = 10 * 1024 * 1024
                      \/ category = "file" /\ file.size = 30 * 1024 * 1024)
                  => Cardinality(CreateRequestsOf(u)) = 1

\* C7 witness: an existing image of 10 MiB + 1 byte was handed to a started
\* adapter, and the upload returned nothing without a request.
C7_Witness ==
    \E u \in Us :
        /\ client
        /\ uploads[u].pc = "returned"
        /\ uploads[u].category = "image"
        /\ uploads[u].file.exists
        /\ uploads[u].file.size = 10 * 1024 * 1024 + 1
        /\ uploads[u].result = <<>>
        /\ requests = <<>>

(***************************************************************************)
(* Outbound: send                                                          *)
(***************************************************************************)
MaxMedia == 2

OutboundMessage(chat_id, content, media) ==
    [chat_id |-> chat_id, content |-> content, media |-> media]

\* lines 584-587: chat_id.startswith("oc_") on the identifiers in use
ReceiveIdType(chat_id) == IF chat_id = "oc_chat" THEN "chat_id" ELSE "open_id"

\* results: what _upload_media returned for each media path handled so far
\* (<<>> for None); contents: the media_content of each attachment message
NewSend(msg) ==
    [pc |-> "called", msg |-> msg, item |-> 0, uploaded |-> {}, raised |-> FALSE,
     results |-> <<>>, contents |-> <<>>]

\* lines 595-602: {"image_key": file_key} for an image, {"file_key": file_key}
\* otherwise, under the msg_type that _upload_media returned
MediaContent(item, result) ==
    [item |-> item, msg_type |-> result[2],
     key_name |-> IF result[2] = "image" THEN "image_key" ELSE "file_key",
     key |-> result[1]]

MessageResponses == {"success", "not_success", "raised"}

\* lines 625-652: the text card, sent when there is content; then send is
\* over, through the except clause if the create call raised
SendCard(s, reqs, done, response) ==
    LET msg == sends[s].msg
    IN IF msg.content = ""
       THEN /\ sends' = [sends EXCEPT ![s] = [done EXCEPT !.pc = "returned"]]
            /\ requests' = reqs
       ELSE /\ sends' = [sends EXCEPT ![s] = [done EXCEPT !.pc = "returned",
                                                          !.raised = (response = "raised")]]
            /\ requests' = Issue(reqs, "message.create", "send", s, 0, "interactive")

\* a send that creates the text card before it turns to the media
SendCallCardFirst(s) ==
    /\ s \in 1..Len(sends)
    /\ sends[s].pc = "called"
    /\ IF ~client
       THEN /\ sends' = [sends EXCEPT ![s] = [@ EXCEPT !.pc = "returned"]]
            /\ UNCHANGED requests
       ELSE IF sends[s].msg.media # <<>>
       THEN /\ sends' = [sends EXCEPT ![s] = [@ EXCEPT !.pc = "uploading", !.item = 1,
                                                       !.uploaded = {1}]]
            /\ requests' = IF sends[s].msg.content # ""
                           THEN Issue(requests, "message.create", "send", s, 0, "interactive")
                           ELSE requests
       ELSE \E response \in MessageResponses : SendCard(s, requests, sends[s], response)
    /\ UNCHANGED <<lifecycle, inbound, fetching, uploads, rendering>>

\* lines 577-593: no client, or on to the first upload, or straight to the card
SendCall(s) ==
    /\ s \in 1..Len(sends)
    /\ sends[s].pc = "called"
    /\ IF ~client
       THEN /\ sends' = [sends EXCEPT ![s] = [@ EXCEPT !.pc = "returned"]]
            /\ UNCHANGED requests
       ELSE IF sends[s].msg.media # <<>>
       THEN /\ sends' = [sends EXCEPT ![s] = [@ EXCEPT !.pc = "uploading", !.item = 1,
                                                       !.uploaded = {1}]]
            /\ UNCHANGED requests
       ELSE \E response \in MessageResponses : SendCard(s, requests, sends[s], response)
    /\ UNCHANGED <<lifecycle, inbound, fetching, uploads, rendering>>

\* lines 593-622, then 590 or 625: the upload of the current item has
\* returned; its message is created when there is a key; a create call that
\* raises leaves through the except clause of send; otherwise the next item
\* is uploaded, or the card is sent after the last one
SendResume(s) ==
    /\ s \in 1..Len(sends)
    /\ sends[s].pc = "uploading"
    /\ \E read \in ReadOutcomes : \E response \in CreateResponses :
       \E sent \in MessageResponses : \E card \in MessageResponses :
           LET up == UploadMedia(sends[s].msg.media[sends[s].item], read, response)
               snd == [sends[s] EXCEPT
                          !.results = Append(@, up.result),
                          !.contents = IF up.result # <<>>
                                       THEN Append(@, MediaContent(sends[s].item, up.result))
                                       ELSE @]
               reqs1 == Issue(requests, up.api, "send", s, snd.item, "")
               reqs2 == IF up.result # <<>>
                        THEN Issue(reqs1, "message.create", "send", s, snd.item, up.result[2])
                        ELSE reqs1
           IN IF up.result # <<>> /\ sent = "raised"
              THEN /\ sends' = [sends EXCEPT ![s] = [snd EXCEPT !.pc = "returned",
                                                                !.raised = TRUE]]
                   /\ requests' = reqs2
              ELSE IF snd.item < Len(snd.msg.media)
              THEN /\ sends' = [sends EXCEPT ![s] =
                                   [snd EXCEPT !.item = @ + 1,
                                               !.uploaded = @ \cup {snd.item + 1}]]
                   /\ requests' = reqs2
              ELSE SendCard(s, reqs2, snd, card)
    /\ UNCHANGED <<lifecycle, inbound, fetching, uploads, rendering>>

SendFiles == {LocalFile(".png", TRUE, 1), LocalFile(".pdf", TRUE, 1), LocalFile(".pdf", FALSE, 0)}

RECURSIVE MediaLists(_)
MediaLists(n) ==
    IF n = 0 THEN {<<>>}
    ELSE MediaLists(n - 1)
         \cup {Append(m, f) : m \in {x \in MediaLists(n - 1) : Len(x) = n - 1}, f \in SendFiles}

\* one call of send by a started or an unstarted adapter, for a message with
\* or without text and with up to MaxMedia attachments
InitSend ==
    /\ config = [sdk |-> TRUE, credentials |-> TRUE]
    /\ client \in BOOLEAN
    /\ running = client
    /\ loop = IF client THEN "running" ELSE "none"
    /\ ws_client = client
    /\ ws_thread = IF client THEN "started" ELSE "none"
    /\ start_pc = IF client THEN "keepalive" ELSE "idle"
    /\ processed_message_ids = <<>>
    /\ handlers = <<>>
    /\ bus = <<>>
    /\ recorded = <<>>
    /\ evicted = <<>>
    /\ dropped = <<>>
    /\ downloads = <<>>
    /\ media_files = {}
    /\ uploads = <<>>
    /\ requests = <<>>
    /\ renders = <<>>
    /\ \E chat_id \in {"oc_chat", "ou_user"} : \E content \in {"", "hi"} :
       \E media \in MediaLists(MaxMedia) :
           sends = <<NewSend(OutboundMessage(chat_id, content, media))>>

SendSlots == {1, 2}

NextSend ==
    \/ \E s \in SendSlots : SendCall(s)
    \/ \E s \in SendSlots : SendResume(s)

SpecSend == InitSend /\ [][NextSend]_vars

(***************************************************************************)
(* Properties of the outbound send                                         *)
(***************************************************************************)
Ss == 1..Len(sends)

CardRequestsOf(s) ==
    {k \in 1..Len(requests) :
        /\ requests[k].by = "send"
        /\ requests[k].call = s
        /\ requests[k].api = "message.create"
        /\ requests[k].item = 0}

\* C8: within one outbound message no failing send blocks the later ones:
\* when send is over, every media path has been uploaded, and the text card
\* has been sent when there is text content.
C8_LaterSendsNotBlocked ==
    \A s \in Ss :
        (client /\ sends[s].pc = "returned") =>
            /\ sends[s].uploaded = 1..Len(sends[s].msg.media)
            /\ sends[s].msg.content # "" => CardRequestsOf(s) # {}

(***************************************************************************)
(* The started adapter with an empty cache and a wider set of events: text *)
(* in a group or a private chat, with or without a sender id, payloads     *)
(* that decode, hold an empty text, are no JSON or no JSON object; the     *)
(* bot's own messages; an image with a resource key.                       *)
(***************************************************************************)
TextEmpty == Payload("object", "{text}", "", Absent, Absent)
InvalidJson == Payload("invalid", "hello {", Absent, Absent, Absent)

InboundIds == {1, 2}

InboundEvents ==
    {Event(i, "user", "ou_user", "p2p", "text", c) :
        i \in InboundIds, c \in {TextHello, TextEmpty, InvalidJson, NonObject}}
    \cup {Event(i, "user", o, t, "text", TextHello) :
        i \in InboundIds, o \in {"ou_user", None}, t \in {"p2p", "group"}}
    \cup {Event(i, "bot", "ou_bot", t, "text", TextHello) : i \in InboundIds, t \in {"p2p", "group"}}
    \cup {Event(i, "bot", "ou_bot", "p2p", "image", ImageWithKey) : i \in InboundIds}
    \cup {Event(i, "user", "ou_user", "group", "image", ImageWithKey) : i \in InboundIds}

InitInbound ==
    /\ config = [sdk |-> TRUE, credentials |-> TRUE]
    /\ running = TRUE
    /\ loop = "running"
    /\ client = TRUE
    /\ ws_client = TRUE
    /\ ws_thread = "started"
    /\ start_pc = "keepalive"
    /\ processed_message_ids = <<>>
    /\ handlers = <<>>
    /\ bus = <<>>
    /\ recorded = <<>>
    /\ evicted = <<>>
    /\ dropped = <<>>
    /\ TransferIdle

NextInbound ==
    \/ \E e \in InboundEvents : OnMessageSync(e)
    \/ HandlerStep

SpecInbound == InitInbound /\ [][NextInbound]_vars

(***************************************************************************)
(* Properties of the dispatch                                              *)
(***************************************************************************)
\* the calls of the bus for identifier i
DispatchesOf(i) == {k \in 1..Len(bus) : bus[k].metadata.message_id = i}

\* the handler has run to its end for an identifier it saw first
RanFirst(h) == handlers[h].pc = "done" /\ handlers[h].first_seen

DecodesToText(content) == content.form = "object" /\ content.text \notin {Absent, ""}

\* C11: a text event with a fresh identifier and a sender that is not the
\* bot, whose payload decodes to a text, is dispatched once: the content is
\* the decoded text, the reply target is the chat id in a group and the
\* sender id otherwise, no media is attached, and the metadata carry the
\* event identifier, the chat kind and the message kind.
C11_TextDispatchedOnce ==
    \A h \in Hs :
        LET ev == handlers[h].ev
            sender == IF ev.open_id = None THEN "unknown" ELSE ev.open_id
        IN (/\ RanFirst(h)
            /\ ev.sender_type # "bot"
            /\ ev.message_type = "text"
            /\ DecodesToText(ev.content))
           => /\ Cardinality(DispatchesOf(ev.message_id)) = 1
              /\ \A k \in DispatchesOf(ev.message_id) :
                     /\ bus[k].sender_id = sender
                     /\ bus[k].chat_id = (IF ev.chat_type = "group" THEN ev.chat_id ELSE sender)
                     /\ bus[k].content = <<[kind |-> "text", msg_type |-> Absent,
                                            text |-> ev.content.text, path |-> <<>>]>>
                     /\ ~bus[k].media.present
                     /\ bus[k].metadata = [message_id |-> ev.message_id,
                                           chat_type |-> ev.chat_type,
                                           msg_type |-> "text"]

\* C11 witness: a text of a group chat and a text of a private chat, with
\* fresh identifiers, were both dispatched, the first to the chat and the
\* second to its sender.
C11_Witness ==
    \E h1 \in Hs : \E h2 \in Hs :
        /\ handlers[h1].ev.chat_type = "group"
        /\ handlers[h2].ev.chat_type = "p2p"
        /\ \A h \in {h1, h2} :
               /\ RanFirst(h)
               /\ handlers[h].ev.message_type = "text"
               /\ handlers[h].outcome = "dispatched"
        /\ \E k1 \in DispatchesOf(IdOf(h1)) : bus[k1].chat_id = "oc_chat"
        /\ \E k2 \in DispatchesOf(IdOf(h2)) : bus[k2].chat_id = "ou_user"

(***************************************************************************)
(* Card rendering: _TABLE_RE, _parse_md_table, _build_card_elements.       *)
(* A text is a sequence of characters.                                     *)
(***************************************************************************)
NL == "\n"
Whitespace == {" ", "\t", NL}                      \* what str.strip() removes
SpaceTab == {" ", "\t"}                            \* [ \t]
SeparatorChars == {"-", ":", "|"} \cup Whitespace  \* [-:\s|]

RECURSIVE LStrip(_, _)
LStrip(s, chars) ==
    IF s # <<>> /\ Head(s) \in chars THEN LStrip(Tail(s), chars) ELSE s

RECURSIVE RStrip(_, _)
RStrip(s, chars) ==
    IF s # <<>> /\ s[Len(s)] \in chars THEN RStrip(SubSeq(s, 1, Len(s) - 1), chars) ELSE s

\* str.strip(chars)
Strip(s, chars) == RStrip(LStrip(s, chars), chars)

\* str.split(ch): the pieces between the occurrences of ch; one piece, the
\* text itself, when there is none (also for the empty text)
RECURSIVE SplitOn(_, _)
SplitOn(s, ch) ==
    IF \A k \in 1..Len(s) : s[k] # ch THEN <<s>>
    ELSE LET k == CHOOSE j \in 1..Len(s) : s[j] = ch /\ \A i \in 1..(j - 1) : s[i] # ch
         IN <<SubSeq(s, 1, k - 1)>> \o SplitOn(SubSeq(s, k + 1, Len(s)), ch)

SelectNonBlank(lines) == SelectSeq(lines, LAMBDA l : Strip(l, Whitespace) # <<>>)

\* lines = [l.strip() for l in table_text.strip().split("\n") if l.strip()]
TableLines(table_text) ==
    LET kept == SelectNonBlank(SplitOn(Strip(table_text, Whitespace), NL))
    IN [k \in 1..Len(kept) |-> Strip(kept[k], Whitespace)]

\* split = lambda l: [c.strip() for c in l.strip("|").split("|")]
SplitCells(l) ==
    LET cells == SplitOn(Strip(l, {"|"}), "|")
    IN [k \in 1..Len(cells) |-> Strip(cells[k], Whitespace)]

\* f"c{i}"
ColumnId(i) == <<"c", i>>

NoTable == [tag |-> "none"]

\* _parse_md_table: None below three lines, else the table element
ParseMdTable(table_text) ==
    LET lines == TableLines(table_text)
        headers == SplitCells(lines[1])
        rows == [k \in 1..(Len(lines) - 2) |-> SplitCells(lines[k + 2])]
    IN IF Len(lines) < 3 THEN NoTable
       ELSE [tag |-> "table",
             page_size |-> Len(rows) + 1,
             columns |-> [i \in 1..Len(headers) |->
                             [tag |-> "column", name |-> ColumnId(i - 1),
                              display_name |-> headers[i], width |-> "auto"]],
             rows |-> [k \in 1..Len(rows) |->
                          [c \in {ColumnId(i) : i \in 0..(Len(headers) - 1)} |->
                              IF c[2] < Len(rows[k]) THEN rows[k][c[2] + 1] ELSE <<>>]]]

\* the position of the first newline at or after p, Len(c) + 1 without one
LineEnd(c, p) ==
    IF \E k \in p..Len(c) : c[k] = NL
    THEN CHOOSE k \in p..Len(c) : c[k] = NL /\ \A i \in p..(k - 1) : c[i] # NL
    ELSE Len(c) + 1

\* ^ under re.MULTILINE
IsLineStart(c, p) == p = 1 \/ c[p - 1] = NL

\* ^[ \t]*\|.+\|[ \t]*\n at p: the position after the newline, 0 without a match
HeaderEnd(c, p) ==
    LET e == LineEnd(c, p)
        core == Strip(SubSeq(c, p, e - 1), SpaceTab)
    IN IF /\ e <= Len(c)
          /\ Len(core) >= 3
          /\ core[1] = "|"
          /\ core[Len(core)] = "|"
       THEN e + 1 ELSE 0

\* ^[ \t]*\|[-:\s|]+\|[ \t]*\n at q: the newlines it can end with; the
\* class holds the newline, so the separator may run over several lines
SeparatorEnds(c, q) ==
    LET blanks == {k \in q..Len(c) : \A i \in q..k : c[i] \in SpaceTab}
        f == q + Cardinality(blanks)
    IN IF f > Len(c) \/ c[f] # "|" THEN {}
       ELSE {r \in (f + 3)..Len(c) :
                /\ c[r] = NL
                /\ \A i \in (f + 1)..(r - 1) : c[i] \in SeparatorChars
                /\ \E g \in (f + 2)..(r - 1) :
                       /\ c[g] = "|"
                       /\ \A i \in (g + 1)..(r - 1) : c[i] \in SpaceTab}

\* ^[ \t]*\|.+\|[ \t]*\n? at s: the position after it, 0 without a match;
\* .+ is greedy, so the row ends with the last pipe of the line, the blanks
\* after it and the newline when it comes next
DataRowEnd(c, s) ==
    LET e == LineEnd(c, s)
        pipes == {g \in s..(e - 1) :
                     /\ c[g] = "|"
                     /\ \E f \in s..(g - 2) :
                            c[f] = "|" /\ \A i \in s..(f - 1) : c[i] \in SpaceTab}
    IN IF s > Len(c) \/ pipes = {} THEN 0
       ELSE LET g == CHOOSE x \in pipes : \A y \in pipes : y <= x
                t == CHOOSE x \in (g + 1)..e :
                         /\ \A i \in (g + 1)..(x - 1) : c[i] \in SpaceTab
                         /\ x = e \/ c[x] \notin SpaceTab
            IN IF t = e /\ e <= Len(c) THEN e + 1 ELSE t

\* (?:...)+ of data rows from s: the position after the last one, 0 without a first
RECURSIVE DataRowsEnd(_, _)
DataRowsEnd(c, s) ==
    LET first == DataRowEnd(c, s)
    IN IF first = 0 THEN 0
       ELSE IF first <= Len(c) /\ IsLineStart(c, first) /\ DataRowEnd(c, first) # 0
       THEN DataRowsEnd(c, first)
       ELSE first

NoMatch == [start |-> 0, end |-> 0]

\* _TABLE_RE matched at p: the span of group 1, end exclusive; the greedy
\* separator is the longest one that data rows follow
MatchAt(c, p) ==
    LET h == HeaderEnd(c, p)
        ends == IF h = 0 THEN {} ELSE {r \in SeparatorEnds(c, h) : DataRowsEnd(c, r + 1) # 0}
    IN IF ~IsLineStart(c, p) \/ ends = {} THEN NoMatch
       ELSE LET r == CHOOSE x \in ends : \A y \in ends : y <= x
            IN [start |-> p, end |-> DataRowsEnd(c, r + 1)]

\* _TABLE_RE.finditer(content) from position from: the matches, left to right
RECURSIVE FindIter(_, _)
FindIter(c, from) ==
    LET starts == {p \in from..Len(c) : IsLineStart(c, p) /\ MatchAt(c, p) # NoMatch}
    IN IF starts = {} THEN <<>>
       ELSE LET p == CHOOSE x \in starts : \A y \in starts : x <= y
            IN <<MatchAt(c, p)>> \o FindIter(c, MatchAt(c, p).end)

Markdown(text) == [tag |-> "markdown", content |-> text]

\* self._parse_md_table(m.group(1)) or the matched text as markdown
TableElement(table_text) ==
    IF ParseMdTable(table_text) = NoTable THEN Markdown(table_text)
    ELSE ParseMdTable(table_text)

\* a loop that emits the text after a table before the table
RECURSIVE ElementsFromTableLast(_, _, _, _)
ElementsFromTableLast(c, matches, k, last_end) ==
    IF k > Len(matches)
    THEN LET remaining == Strip(SubSeq(c, last_end, Len(c)), Whitespace)
         IN IF remaining # <<>> THEN <<Markdown(remaining)>> ELSE <<>>
    ELSE LET mt == matches[k]
             before == Strip(SubSeq(c, last_end, mt.start - 1), Whitespace)
         IN (IF before # <<>> THEN <<Markdown(before)>> ELSE <<>>)
            \o ElementsFromTableLast(c, matches, k + 1, mt.end)
            \o <<TableElement(SubSeq(c, mt.start, mt.end - 1))>>
\* the loop of _build_card_elements over the matches from the k-th on
RECURSIVE ElementsFrom(_, _, _, _)
ElementsFrom(c, matches, k, last_end) ==
    IF k > Len(matches)
    THEN LET remaining == Strip(SubSeq(c, last_end, Len(c)), Whitespace)
         IN IF remaining # <<>> THEN <<Markdown(remaining)>> ELSE <<>>
    ELSE LET mt == matches[k]
             before == Strip(SubSeq(c, last_end, mt.start - 1), Whitespace)
         IN (IF before # <<>> THEN <<Markdown(before)>> ELSE <<>>)
            \o <<TableElement(SubSeq(c, mt.start, mt.end - 1))>>
            \o ElementsFrom(c, matches, k + 1, mt.end)

\* a render without the fallback for a text that yields no element
BuildCardElementsNoFallback(content) == ElementsFrom(content, FindIter(content, 1), 1, 1)
\* _build_card_elements
BuildCardElements(content) ==
    LET elements == ElementsFrom(content, FindIter(content, 1), 1, 1)
    IN IF elements # <<>> THEN elements ELSE <<Markdown(content)>>


\* the matched texts handed to _parse_md_table, with what it returned
ParsedTables(c, matches) ==
    [k \in 1..Len(matches) |->
        [text |-> SubSeq(c, matches[k].start, matches[k].end - 1),
         element |-> ParseMdTable(SubSeq(c, matches[k].start, matches[k].end - 1))]]

NewRender(content) == [pc |-> "called", content |-> content, elements |-> <<>>, parsed |-> <<>>]

\* one call of _build_card_elements, which never suspends
Render(r) ==
    /\ r \in 1..Len(renders)
    /\ renders[r].pc = "called"
    /\ renders' = [renders EXCEPT ![r] =
           [@ EXCEPT !.pc = "returned",
                     !.elements = BuildCardElements(renders[r].content),
                     !.parsed = ParsedTables(renders[r].content,
                                             FindIter(renders[r].content, 1))]]
    /\ UNCHANGED <<lifecycle, inbound, fetching, posting>>

MaxLines == 4

RenderLines ==
    {<<"|", "a", "|", "b", "|">>, <<"|", "-", "|", "-", "|">>,
     <<"|", "|", "2", "|">>, <<" ", "|", " ", "1", " ", "|">>, <<"x">>, <<>>}

RECURSIVE JoinLines(_)
JoinLines(lines) ==
    IF lines = <<>> THEN <<>>
    ELSE IF Len(lines) = 1 THEN lines[1]
    ELSE lines[1] \o <<NL>> \o JoinLines(Tail(lines))

RenderTexts(n) ==
    {JoinLines(ls) \o tail : ls \in UNION {[1..k -> RenderLines] : k \in 0..n},
                             tail \in {<<>>, <<NL>>}}

TableExample == JoinLines(<< <<"|", "a", "|", "b", "|">>, <<"|", "-", "|", "-", "|">>,
                            <<"|", "1", "|", "2", "|">>, <<>> >>)

MixedExample == JoinLines(<< <<"i", "n", "t", "r", "o">>, <<>>,
                            <<"|", "a", "|", "b", "|">>, <<"|", "-", "|", "-", "|">>,
                            <<"|", "1", "|", "2", "|">>, <<>>,
                            <<"o", "u", "t", "r", "o">> >>)

\* one call of _build_card_elements for a text of up to MaxLines lines, or
\* one of the two examples
InitRender ==
    /\ config = [sdk |-> TRUE, credentials |-> TRUE]
    /\ running = TRUE
    /\ loop = "running"
    /\ client = TRUE
    /\ ws_client = TRUE
    /\ ws_thread = "started"
    /\ start_pc = "keepalive"
    /\ processed_message_ids = <<>>
    /\ handlers = <<>>
    /\ bus = <<>>
    /\ recorded = <<>>
    /\ evicted = <<>>
    /\ dropped = <<>>
    /\ downloads = <<>>
    /\ media_files = {}
    /\ uploads = <<>>
    /\ sends = <<>>
    /\ requests = <<>>
    /\ \E content \in RenderTexts(MaxLines) \cup {TableExample, MixedExample} :
           renders = <<NewRender(content)>>

RenderSlots == {1, 2}

NextRender == \E r \in RenderSlots : Render(r)

SpecRender == InitRender /\ [][NextRender]_vars

(***************************************************************************)
(* Properties of the card rendering                                        *)
(***************************************************************************)
Rs == 1..Len(renders)

\* the cells of a table line: the trimmed texts between its pipes
CellsBetweenPipes(line) ==
    LET pieces == SplitOn(line, "|")
    IN [k \in 1..(Len(pieces) - 2) |-> Strip(pieces[k + 1], Whitespace)]

\* C12: a matched table with n header cells parses to one Table element:
\* columns c0..c(n-1) in order, named after the trimmed header cells; one row
\* per data line, in order, mapping every column id to the trimmed cell of
\* that column ("" for a missing trailing cell); page_size the rows plus one.
C12_TableFromCells ==
    \A r \in Rs : \A t \in 1..Len(renders[r].parsed) :
        LET lines == TableLines(renders[r].parsed[t].text)
            table == renders[r].parsed[t].element
            header == CellsBetweenPipes(lines[1])
            n == Len(header)
            data == [k \in 1..(Len(lines) - 2) |-> CellsBetweenPipes(lines[k + 2])]
        IN /\ table.tag = "table"
           /\ Len(table.columns) = n
           /\ \A i \in 1..n : /\ table.columns[i].name = ColumnId(i - 1)
                              /\ table.columns[i].display_name = header[i]
           /\ Len(table.rows) = Len(data)
           /\ table.page_size = Len(data) + 1
           /\ \A k \in 1..Len(data) :
                  /\ DOMAIN table.rows[k] = {ColumnId(i) : i \in 0..(n - 1)}
                  /\ \A i \in 1..n :
                         table.rows[k][ColumnId(i - 1)] =
                             (IF i <= Len(data[k]) THEN data[k][i] ELSE <<>>)

\* the pieces of a rendered text in source order: the table blocks and the
\* non-empty trimmed texts before, between and after them
SourcePieces(c) ==
    LET matches == FindIter(c, 1)
        gap(k) == Strip(SubSeq(c, IF k = 0 THEN 1 ELSE matches[k].end,
                                  IF k = Len(matches) THEN Len(c) ELSE matches[k + 1].start - 1),
                        Whitespace)
    IN {[at |-> 2 * k, tag |-> "markdown", text |-> gap(k)] :
            k \in {j \in 0..Len(matches) : gap(j) # <<>>}}
       \cup {[at |-> 2 * k - 1, tag |-> "table",
              text |-> SubSeq(c, matches[k].start, matches[k].end - 1)] :
                k \in 1..Len(matches)}

\* C13: the elements mirror the text: for a text with a table block or a
\* non-empty plain segment, the elements are as many as its pieces, and the
\* j-th element is the j-th piece in source order: a Markdown element with
\* the trimmed segment, or the Table element of the block; the mixed example
\* gives Markdown("intro"), Table, Markdown("outro").
C13_ElementsMirrorSource ==
    \A r \in Rs :
        renders[r].pc = "returned" =>
            LET pieces == SourcePieces(renders[r].content)
                elements == renders[r].elements
                rank(p) == Cardinality({q \in pieces : q.at <= p.at})
            IN /\ pieces # {} =>
                      /\ Len(elements) = Cardinality(pieces)
                      /\ \A p \in pieces :
                             /\ elements[rank(p)].tag = p.tag
                             /\ p.tag = "markdown" => elements[rank(p)].content = p.text
               /\ renders[r].content = MixedExample =>
                      /\ Len(elements) = 3
                      /\ elements[1] = [tag |-> "markdown", content |-> <<"i", "n", "t", "r", "o">>]
                      /\ elements[2].tag = "table"
                      /\ elements[2].rows = << (ColumnId(0) :> <<"1">>) @@ (ColumnId(1) :> <<"2">>) >>
                      /\ elements[3] = [tag |-> "markdown", content |-> <<"o", "u", "t", "r", "o">>]

\* C13 witness: the mixed example was rendered into three elements.
C13_Witness ==
    \E r \in Rs :
        /\ renders[r].pc = "returned"
        /\ renders[r].content = MixedExample
        /\ Len(renders[r].elements) = 3
        /\ Len(renders[r].parsed) = 1

(***************************************************************************)
(* Properties of the extension resolution                                  *)
(***************************************************************************)
HasMimeEntry(mime_type) == mime_type \notin {None, ""} /\ mime_type \in DOMAIN MimeExtensions
HasKindEntry(msg_type) == msg_type \in DOMAIN KindExtensions

NameSuffixOf(d) ==
    IF downloads[d].file_name # NoName THEN PathSuffix(downloads[d].file_name) ELSE <<>>

\* C14: _get_extension is total: whenever a download asks it (the declared
\* file name gives no extension), for a known or unknown message type and a
\* known, unknown, empty or absent MIME type, it returns a non-empty
\* extension, and ".bin" when neither table has an entry.
C14_ExtensionTotal ==
    \A d \in Ds :
        (downloads[d].built /\ NameSuffixOf(d) = <<>>) =>
            /\ Len(downloads[d].ext) = 1
            /\ downloads[d].ext[1] # ""
            /\ (~HasMimeEntry(downloads[d].mime_type) /\ ~HasKindEntry(downloads[d].msg_type))
                   => downloads[d].ext[1] = ".bin"

\* C14 witness: a resource of an unknown message type with an unknown MIME
\* type and no file name was stored under its key with ".bin".
C14_Witness ==
    \E d \in Ds :
        /\ downloads[d].msg_type = "sticker"
        /\ downloads[d].mime_type = "application/x-unknown"
        /\ downloads[d].file_name = NoName
        /\ downloads[d].ext = <<".bin">>
        /\ downloads[d].result = << <<"media">>, <<"img_v2_key", ".bin">> >>

\* C15: the extension resolved for a download is the first that exists of:
\* the extension of the declared file name, the entry of the MIME type, the
\* default of the message type, ".bin"; a later source is used only when
\* every earlier one yields nothing.
C15_ExtensionPriority ==
    \A d \in Ds :
        downloads[d].built =>
            LET dl == downloads[d]
                by_name == NameSuffixOf(d) # <<>>
                by_mime == HasMimeEntry(dl.mime_type)
                by_kind == HasKindEntry(dl.msg_type)
            IN /\ by_name => dl.ext = PathSuffix(dl.file_name)
               /\ (~by_name /\ by_mime) => dl.ext = <<MimeExtensions[dl.mime_type]>>
               /\ (~by_name /\ ~by_mime /\ by_kind) => dl.ext = <<KindExtensions[dl.msg_type]>>
               /\ (~by_name /\ ~by_mime /\ ~by_kind) => dl.ext = <<".bin">>

\* C15 witness: a resource declared as "a.a" with MIME type image/png was
\* stored; its extension is the one of the name, not ".png".
C15_Witness ==
    \E d \in Ds :
        /\ downloads[d].file_name = <<"a", ".", "a">>
        /\ downloads[d].mime_type = "image/png"
        /\ downloads[d].ext = <<".", "a">>
        /\ downloads[d].result # <<>>

(***************************************************************************)
(* Properties of the download outcome                                      *)
(***************************************************************************)
\* C16: _download_file returns None on a response that is no success, on an
\* exception of the call, on empty fetched content and on an exception of
\* mkdir or of the write; it returns a path only once the bytes are written
\* to that path.
C16_AbsentOnEveryFailure ==
    \A d \in Ds :
        downloads[d].pc = "returned" =>
            /\ (\/ downloads[d].response \in {"raised", "not_success", "empty_file", "empty_stream"}
                \/ downloads[d].io \in {"mkdir_failed", "write_failed"})
                   => downloads[d].result = <<>>
            /\ downloads[d].result # <<>> =>
                   \E f \in media_files : f.path = Resolve(downloads[d].result)

(***************************************************************************)
(* Properties of the lifecycle                                             *)
(***************************************************************************)
Misconfigured == ~config.sdk \/ ~config.credentials

\* C17: without the SDK or without app_id and app_secret, start() refuses
\* and nothing is started: the running flag stays false, no loop is stored,
\* no API client and no transport client is created, no transport thread is
\* started, and start() never enters its keep-alive loop.
C17_NoPartialStart ==
    Misconfigured =>
        /\ ~running
        /\ loop = "none"
        /\ ~client
        /\ ~ws_client
        /\ ws_thread = "none"
        /\ start_pc \in {"idle", "returned"}

\* C17 witness: start() of an adapter without credentials has returned.
C17_Witness ==
    /\ config.sdk
    /\ ~config.credentials
    /\ start_pc = "returned"
    /\ ~running

(***************************************************************************)
(* The started adapter with traffic in both directions: events come in     *)
(* while one outbound message is sent.                                     *)
(***************************************************************************)
TrafficEvents ==
    {Event(1, "user", "ou_user", "p2p", "text", TextHello),
     Event(1, "user", "ou_user", "group", "image", ImageWithKey),
     Event(2, "user", "ou_user", "p2p", "image", ImageWithKey),
     Event(2, "bot", "ou_bot", "p2p", "text", TextHello)}

TrafficMessages ==
    {OutboundMessage("oc_chat", "hi", <<LocalFile(".png", TRUE, 1), LocalFile(".pdf", TRUE, 1)>>),
     OutboundMessage("ou_user", "", <<LocalFile(".pdf", FALSE, 0), LocalFile(".png", TRUE, 1)>>),
     OutboundMessage("ou_user", "hi", <<>>)}

InitTraffic ==
    /\ config = [sdk |-> TRUE, credentials |-> TRUE]
    /\ running = TRUE
    /\ loop = "running"
    /\ client = TRUE
    /\ ws_client = TRUE
    /\ ws_thread = "started"
    /\ start_pc = "keepalive"
    /\ processed_message_ids = <<>>
    /\ handlers = <<>>
    /\ bus = <<>>
    /\ recorded = <<>>
    /\ evicted = <<>>
    /\ dropped = <<>>
    /\ downloads = <<>>
    /\ media_files = {}
    /\ uploads = <<>>
    /\ requests = <<>>
    /\ renders = <<>>
    /\ \E msg \in TrafficMessages : sends = <<NewSend(msg)>>

NextTraffic ==
    \/ \E e \in TrafficEvents : OnMessageSync(e)
    \/ HandlerStep
    \/ \E s \in SendSlots : SendCall(s)
    \/ \E s \in SendSlots : SendResume(s)

SpecTraffic == InitTraffic /\ [][NextTraffic]_vars

(***************************************************************************)
(* Properties of the calls issued                                          *)
(***************************************************************************)
RECURSIVE SumOver(_, _)
SumOver(f, S) ==
    IF S = {} THEN 0
    ELSE LET x == CHOOSE y \in S : TRUE IN f[x] + SumOver(f, S \ {x})

HandlersOf(i) == {h \in Hs : IdOf(h) = i}

RequestsOf(s, item, apis) ==
    {k \in 1..Len(requests) :
        /\ requests[k].by = "send"
        /\ requests[k].call = s
        /\ requests[k].item = item
        /\ requests[k].api \in apis}

\* C18: nothing is retried: for one inbound event the reaction call, the
\* get-resource call and the bus handoff are each issued at most once, and
\* for one outbound message each media path is uploaded at most once, each
\* attachment message is sent at most once and the card is sent at most
\* once, whatever the calls return.
C18_NoRetries ==
    /\ \A i \in DeliveredIds :
           /\ SumOver([h \in Hs |-> handlers[h].reactions], HandlersOf(i)) <= 1
           /\ SumOver([h \in Hs |-> handlers[h].fetches], HandlersOf(i)) <= 1
           /\ Cardinality(DispatchesOf(i)) <= 1
    /\ \A s \in Ss :
           /\ \A item \in 1..Len(sends[s].msg.media) :
                  /\ Cardinality(RequestsOf(s, item, {"image.create", "file.create"})) <= 1
                  /\ Cardinality(RequestsOf(s, item, {"message.create"})) <= 1
           /\ Cardinality(RequestsOf(s, 0, {"message.create"})) <= 1

\* C18 witness: the handoff of an event failed after its reaction and its
\* get-resource call, the same event was delivered again and dropped, and a
\* send ended in an exception; each call was issued once.
C18_Witness ==
    /\ \E h1 \in Hs : \E h2 \in Hs :
           /\ h1 < h2
           /\ IdOf(h1) = IdOf(h2)
           /\ handlers[h1].outcome = "handoff_failed"
           /\ handlers[h1].reactions = 1
           /\ handlers[h1].fetches = 1
           /\ handlers[h2].outcome = "duplicate"
           /\ Cardinality(DispatchesOf(IdOf(h1))) = 1
    /\ \E s \in Ss :
           /\ sends[s].pc = "returned"
           /\ sends[s].raised
           /\ Cardinality(RequestsOf(s, 1, {"image.create"})) = 1
           /\ Cardinality(RequestsOf(s, 1, {"message.create"})) = 1

(***************************************************************************)
(* Two downloads in flight at once, as two events with resources start     *)
(* them: names that sanitize alike or not, keys that share their first 16  *)
(* characters or not.                                                      *)
(***************************************************************************)
PairNames == {NoName, <<"a", "/", "a">>, <<"a", "a">>}
PairKeys == {"file_v2_0123456789_a", "file_v2_0123456789_b", "img_v2_key"}

PairDownloads ==
    {NewDownload(k, t, mt, n) :
        k \in PairKeys, t \in {"image", "file"}, mt \in {None, "image/png"}, n \in PairNames}

InitDownloadPair ==
    /\ config = [sdk |-> TRUE, credentials |-> TRUE]
    /\ running = TRUE
    /\ loop = "running"
    /\ client = TRUE
    /\ ws_client = TRUE
    /\ ws_thread = "started"
    /\ start_pc = "keepalive"
    /\ processed_message_ids = <<>>
    /\ handlers = <<>>
    /\ bus = <<>>
    /\ recorded = <<>>
    /\ evicted = <<>>
    /\ dropped = <<>>
    /\ media_files = {}
    /\ uploads = <<>>
    /\ sends = <<>>
    /\ requests = <<>>
    /\ renders = <<>>
    /\ \E d1 \in PairDownloads : \E d2 \in PairDownloads : downloads = <<d1, d2>>

SpecDownloadPair == InitDownloadPair /\ [][NextDownload]_vars

(***************************************************************************)
(* Properties of concurrent downloads                                      *)
(***************************************************************************)
\* the fetch gave bytes (or an empty stream) and neither mkdir nor the write
\* was made to fail
Storable(d) ==
    /\ downloads[d].pc = "returned"
    /\ downloads[d].response \in {"file", "empty_stream"}
    /\ downloads[d].disk_ok
    /\ ~IsDirectory(Resolve(downloads[d].target))

FilesAt(place) == {f \in media_files : f.path = place}

\* C19: nothing keeps two downloads from one path: when two downloads in
\* flight resolve to the same path (names that sanitize alike, or no names
\* and keys with the same first 16 characters and the same extension) both
\* succeed and return that path, and the path holds one file, written
\* twice, with the bytes of one of them only; the download that writes is
\* the one whose bytes the file holds, so the later write replaces the
\* earlier.
C19_SamePathOverwritten ==
    /\ [][\A d \in DownloadSlots :
              (/\ d <= Len(downloads)
               /\ downloads[d].result = <<>>
               /\ downloads'[d].result # <<>>)
              => \E f \in media_files' :
                     /\ f.path = Resolve(downloads'[d].result)
                     /\ f.by = d
                     /\ f.writes = 1 + Cardinality(FilesAt(f.path))]_vars
    /\ [](\A d1 \in Ds : \A d2 \in Ds :
              (/\ d1 # d2
               /\ Storable(d1)
               /\ Storable(d2)
               /\ Resolve(downloads[d1].target) = Resolve(downloads[d2].target))
              => /\ downloads[d1].result = downloads[d1].target
                 /\ downloads[d2].result = downloads[d1].result
                 /\ \E f \in media_files :
                        /\ FilesAt(Resolve(downloads[d1].target)) = {f}
                        /\ f.writes = 2
                        /\ f.by \in {d1, d2})

\* C19 witness: two downloads without file name, whose keys differ after
\* the 16th character, have both returned the path derived from the first
\* 16 characters; the file there was written twice and holds the bytes of
\* the second download.
C19_Witness ==
    /\ Len(downloads) = 2
    /\ downloads[1].file_key = "file_v2_0123456789_a"
    /\ downloads[2].file_key = "file_v2_0123456789_b"
    /\ downloads[1].file_name = NoName
    /\ downloads[2].file_name = NoName
    /\ downloads[1].result = << <<"media">>, <<"file_v2_01234567", ".bin">> >>
    /\ downloads[2].result = downloads[1].result
    /\ \E f \in media_files :
           /\ f.path = downloads[1].result
           /\ f.writes = 2
           /\ f.by = 2
           /\ Cardinality(media_files) = 1

\* C20: an event whose sender is flagged as bot is skipped: its handler
\* issues no reaction call and no get-resource call and ends without a
\* handoff, so nothing of a bot is ever dispatched to the bus.
C20_BotSkipped ==
    /\ \A h \in Hs :
           handlers[h].ev.sender_type = "bot" =>
               /\ handlers[h].reactions = 0
               /\ handlers[h].fetches = 0
               /\ handlers[h].pc \in {"scheduled", "done"}
               /\ handlers[h].outcome \in {"pending", "bot", "duplicate"}
    /\ \A k \in 1..Len(bus) : bus[k].sender_id # "ou_bot"
    /\ \A i \in DeliveredIds :
           (\A h \in HandlersOf(i) : handlers[h].ev.sender_type = "bot") => DispatchesOf(i) = {}

\* C20 witness: the bot's own image with a resource key, first of its
\* identifier, was skipped, and a user's event was dispatched meanwhile.
C20_Witness ==
    \E h1 \in Hs : \E h2 \in Hs :
        /\ handlers[h1].ev.sender_type = "bot"
        /\ handlers[h1].ev.message_type = "image"
        /\ handlers[h1].first_seen
        /\ handlers[h1].outcome = "bot"
        /\ DispatchesOf(IdOf(h1)) = {}
        /\ handlers[h2].outcome = "dispatched"


(***************************************************************************)
(* Properties of the content of a dispatch                                 *)
(***************************************************************************)
\* C21: a text event whose payload does not decode to an object with a text
\* field, be it no JSON at all or JSON that is not an object, is still
\* dispatched, with the raw payload as its text.
C21_UndecodableTextDispatched ==
    \A h \in Hs :
        LET ev == handlers[h].ev
        IN (/\ RanFirst(h)
            /\ ev.sender_type # "bot"
            /\ ev.message_type = "text"
            /\ ev.content.form \in {"invalid", "non_object"})
           => /\ handlers[h].outcome \in {"dispatched", "handoff_failed"}
              /\ \E k \in DispatchesOf(ev.message_id) :
                     bus[k].content = <<TextPart(ev.content.raw)>>


(***************************************************************************)
(* The started adapter with media events: images, files and audio whose    *)
(* payload holds a resource key, with or without a caption, next to text   *)
(* events (one of them with a stray resource key in its payload).          *)
(***************************************************************************)
ImageWithCaption == Payload("object", "{image_key,text}", "look", Absent, "img_v2_key")
FileWithKey == Payload("object", "{file_key}", Absent, "file_v2_key", Absent)
FileWithCaption == Payload("object", "{file_key,text}", "look", "file_v2_key", Absent)
FileWithImageKey == Payload("object", "{image_key}", Absent, Absent, "img_v2_key")
TextWithKey == Payload("object", "{text,file_key}", "hello", "file_v2_key", Absent)

MediaIds == {1, 2}

MediaEvents ==
    {Event(i, "user", "ou_user", "p2p", "image", c) :
        i \in MediaIds, c \in {ImageWithKey, ImageWithCaption, FileWithKey}}
    \cup {Event(i, "user", "ou_user", "p2p", t, c) :
        i \in MediaIds, t \in {"file", "audio"}, c \in {FileWithKey, FileWithCaption}}
    \cup {Event(i, "user", "ou_user", "p2p", "file", FileWithImageKey) : i \in MediaIds}
    \cup {Event(i, "user", "ou_user", "p2p", "text", c) :
        i \in MediaIds, c \in {TextHello, TextWithKey}}

NextMedia ==
    \/ \E e \in MediaEvents : OnMessageSync(e)
    \/ HandlerStep

SpecMedia == InitInbound /\ [][NextMedia]_vars

\* the event's payload holds a resource key the media branch finds
CarriesKey(ev) == ev.message_type # "text" /\ ResourceKey(ev.content, ev.message_type) # Absent

\* C22: a media event carrying a resource key is dispatched whatever the
\* download returns: with a path, the media list is that one path and the
\* content starts with the reference tag holding it; with None, there is no
\* media list and the content starts with the download-failed tag; a text
\* field of the payload follows the tag and nothing else does; a text event
\* has no media list.
C22_MediaDispatched ==
    /\ \A h \in Hs :
           LET ev == handlers[h].ev
               hr == handlers[h]
               tag == IF hr.file_path # <<>>
                      THEN [kind |-> "ref", msg_type |-> ev.message_type,
                            text |-> Absent, path |-> hr.file_path]
                      ELSE [kind |-> "download_failed", msg_type |-> ev.message_type,
                            text |-> Absent, path |-> <<>>]
               caption == IF ev.content.text # Absent
                          THEN <<[kind |-> "text", msg_type |-> Absent,
                                  text |-> ev.content.text, path |-> <<>>]>>
                          ELSE <<>>
           IN (RanFirst(h) /\ ev.sender_type # "bot" /\ CarriesKey(ev))
              => /\ hr.outcome \in {"dispatched", "handoff_failed"}
                 /\ hr.fetches = 1
                 /\ Cardinality(DispatchesOf(ev.message_id)) = 1
                 /\ \A k \in DispatchesOf(ev.message_id) :
                        /\ bus[k].content = <<tag>> \o caption
                        /\ bus[k].media.present = (hr.file_path # <<>>)
                        /\ bus[k].media.paths =
                               (IF hr.file_path # <<>> THEN <<hr.file_path>> ELSE <<>>)
    /\ \A k \in 1..Len(bus) :
           bus[k].metadata.msg_type = "text" =>
               /\ ~bus[k].media.present
               /\ bus[k].media.paths = <<>>

\* C22 witness: a media event with a caption whose download returned a path
\* and a media event whose download failed were both dispatched.
C22_Witness ==
    \E h1 \in Hs : \E h2 \in Hs :
        /\ CarriesKey(handlers[h1].ev)
        /\ handlers[h1].ev.content.text # Absent
        /\ handlers[h1].file_path # <<>>
        /\ handlers[h1].outcome = "dispatched"
        /\ CarriesKey(handlers[h2].ev)
        /\ handlers[h2].fetches = 1
        /\ handlers[h2].file_path = <<>>
        /\ handlers[h2].outcome = "dispatched"


(***************************************************************************)
(* The started adapter with each kind of event under two identifiers, so   *)
(* that one event can be handled twice with different outcomes of its      *)
(* reaction call.                                                          *)
(***************************************************************************)
ReactionIds == {1, 2}

ReactionEvents ==
    {Event(i, "user", "ou_user", "p2p", "text", c) : i \in ReactionIds, c \in {TextHello, NonObject}}
    \cup {Event(i, "user", "ou_user", "group", "image", ImageWithCaption) : i \in ReactionIds}

NextReaction ==
    \/ \E e \in ReactionEvents : OnMessageSync(e)
    \/ HandlerStepNoted

SpecReaction == InitInbound /\ [][NextReaction]_vars

\* the two events differ in their identifier at most
SameButId(e1, e2) == [e1 EXCEPT !.message_id = 0] = [e2 EXCEPT !.message_id = 0]

\* what the bus was given for the handler's event, but for the identifier
Delivered(h) ==
    {[sender_id |-> bus[k].sender_id, chat_id |-> bus[k].chat_id,
      content |-> bus[k].content, media |-> bus[k].media] : k \in DispatchesOf(IdOf(h))}

\* C23: the reaction is best effort: a handler whose create-reaction call
\* returned a non-success response or raised goes on, and hands the bus the
\* same content, reply target and media as a handler of the same event (under
\* another identifier, with the same download result) whose reaction
\* succeeded; a user's event whose payload decodes is dispatched after any
\* outcome of the reaction.
C23_ReactionBestEffort ==
    /\ \A h \in Hs :
           (/\ RanFirst(h)
            /\ handlers[h].reaction \in {"failed", "raised"}
            /\ ~ParseRaises(handlers[h].ev.content))
           => Cardinality(DispatchesOf(IdOf(h))) = 1
    /\ \A h1 \in Hs : \A h2 \in Hs :
           (/\ RanFirst(h1) /\ RanFirst(h2)
            /\ SameButId(handlers[h1].ev, handlers[h2].ev)
            /\ handlers[h1].file_path = handlers[h2].file_path
            /\ handlers[h1].reaction = "ok"
            /\ handlers[h2].reaction \in {"failed", "raised"})
           => Delivered(h1) = Delivered(h2)

\* C23 witness: one image event was handled under two identifiers, the
\* reaction of the first succeeded and that of the second raised, both
\* downloads returned a path, and both were dispatched.
C23_Witness ==
    \E h1 \in Hs : \E h2 \in Hs :
        /\ IdOf(h1) # IdOf(h2)
        /\ SameButId(handlers[h1].ev, handlers[h2].ev)
        /\ handlers[h1].reaction = "ok"
        /\ handlers[h2].reaction = "raised"
        /\ handlers[h1].file_path # <<>>
        /\ handlers[h2].file_path = handlers[h1].file_path
        /\ handlers[h1].outcome = "dispatched"
        /\ handlers[h2].outcome = "dispatched"
        /\ Delivered(h2) # {}


(***************************************************************************)
(* The started adapter that may be stopped while events are handled.  The  *)
(* event loop keeps running and resumes every coroutine whose offloaded    *)
(* call has returned: the executor's threads end their calls, and the      *)
(* loop runs what is ready.                                                *)
(***************************************************************************)
StopEvents ==
    {Event(1, "user", "ou_user", "p2p", "text", TextHello),
     Event(2, "user", "ou_user", "group", "image", ImageWithCaption)}

NextStopping ==
    \/ Stop
    \/ KeepAliveExit
    \/ \E e \in StopEvents : OnMessageSync(e)
    \/ HandlerStepNoted

HandlersFair ==
    \A h \in 1..MaxDeliveries :
        /\ WF_vars(OnMessageBegin(h))
        /\ WF_vars(OnMessageAfterReactionNoted(h))
        /\ WF_vars(OnMessageAfterDownloadNoted(h))

SpecStopping == InitInbound /\ [][NextStopping]_vars /\ HandlersFair

\* the coroutine is suspended on an offloaded call
InFlight(h) == h \in Hs /\ handlers[h].pc \in {"reacting", "downloading"}

\* the coroutine has ended after it called the bus
Completed(h) ==
    /\ h \in Hs
    /\ handlers[h].pc = "done"
    /\ handlers[h].outcome \in {"dispatched", "handoff_failed"}
    /\ DispatchesOf(IdOf(h)) # {}

SendRequestsOf(s) == {k \in 1..Len(requests) : requests[k].by = "send" /\ requests[k].call = s}

\* the place of a request in the order of one message: the media paths in
\* list order, the upload of each before its message, the text card last
SendRank(s, k) ==
    LET r == requests[k]
    IN IF r.item = 0 THEN 2 * Len(sends[s].msg.media) + 1
       ELSE IF r.api = "message.create" THEN 2 * r.item
       ELSE 2 * r.item - 1

\* C25: the requests of one outbound message are issued in order: the media
\* paths one at a time in list order, for each the upload and then, only if
\* the upload returned a key, one attachment message that carries the
\* returned category and key; the text card only when there is text
\* content, after every media path has been handled, as the last request.
C25_SendsOrdered ==
    \A s \in Ss :
        LET snd == sends[s]
            n == Len(snd.msg.media)
            mine == SendRequestsOf(s)
            handled == Len(snd.results)
        IN /\ \A k1 \in mine : \A k2 \in mine : k1 < k2 => SendRank(s, k1) < SendRank(s, k2)
           /\ \A k \in mine : requests[k].item \in 0..n
           /\ \A k \in mine : requests[k].item > handled => requests[k].api # "message.create"
           /\ handled <= n
           /\ snd.item \in {handled, handled + 1}
           /\ \A i \in 1..handled :
                  LET creates == {k \in mine : requests[k].item = i
                                                  /\ requests[k].api = "message.create"}
                      tagged == {c \in Range(snd.contents) : c.item = i}
                  IN IF snd.results[i] = <<>>
                     THEN creates = {} /\ tagged = {}
                     ELSE /\ Cardinality(creates) = 1
                          /\ \A k \in creates : requests[k].msg_type = snd.results[i][2]
                          /\ tagged = {[item |-> i, msg_type |-> snd.results[i][2],
                                        key_name |-> IF snd.results[i][2] = "image"
                                                     THEN "image_key" ELSE "file_key",
                                        key |-> snd.results[i][1]]}
                          /\ snd.results[i][2] = Category(snd.msg.media[i])
           /\ CardRequestsOf(s) # {} =>
                  /\ snd.msg.content # ""
                  /\ handled = n
                  /\ Cardinality(CardRequestsOf(s)) = 1
                  /\ snd.pc = "returned"
           /\ (snd.pc = "returned" /\ client /\ ~snd.raised /\ snd.msg.content # "")
                  => CardRequestsOf(s) # {}

\* C25 witness: a message with text and two media paths: the upload of the
\* first failed and no attachment was sent for it, the second was uploaded
\* and sent as an attachment, and the text card came last.
C25_Witness ==
    \E s \in Ss :
        /\ sends[s].pc = "returned"
        /\ Len(sends[s].msg.media) = 2
        /\ Len(sends[s].results) = 2
        /\ sends[s].results[1] = <<>>
        /\ sends[s].results[2] # <<>>
        /\ Len(sends[s].contents) = 1
        /\ CardRequestsOf(s) # {}
        /\ \E k \in SendRequestsOf(s) :
               requests[k].item = 1 /\ requests[k].api \in {"image.create", "file.create"}


(***************************************************************************)
(* Properties of a render without a table                                  *)
(***************************************************************************)
\* the text from its first to its last character that is not whitespace
Trimmed(c) ==
    LET ks == {k \in 1..Len(c) : c[k] \notin Whitespace}
    IN IF ks = {} THEN <<>>
       ELSE SubSeq(c, CHOOSE k \in ks : \A j \in ks : k <= j,
                      CHOOSE k \in ks : \A j \in ks : k >= j)

\* C26 as stated: when the table pattern matches nowhere, the render returns
\* one Markdown element that holds the entire input.
C26_WholeInputOneElement ==
    \A r \in Rs :
        (renders[r].pc = "returned" /\ renders[r].parsed = <<>>)
            => renders[r].elements = <<[tag |-> "markdown", content |-> renders[r].content]>>

\* C26 amended: when the table pattern matches nowhere, the render returns
\* one Markdown element that holds the input without its leading and
\* trailing whitespace, or the input as it is when it is empty or all
\* whitespace; and every render returns at least one element, each a
\* Markdown element or a table.
C26_OneTrimmedElement ==
    \A r \in Rs :
        renders[r].pc = "returned" =>
            LET c == renders[r].content
                els == renders[r].elements
            IN /\ els # <<>>
               /\ \A k \in 1..Len(els) : els[k].tag \in {"markdown", "table"}
               /\ renders[r].parsed = <<>> =>
                      els = <<[tag |-> "markdown",
                               content |-> IF Trimmed(c) = <<>> THEN c ELSE Trimmed(c)]>>

\* C26 witness: a text without a table, with whitespace around it, was
\* rendered to one Markdown element that holds the text without it.
C26_Witness ==
    \E r \in Rs :
        /\ renders[r].pc = "returned"
        /\ renders[r].parsed = <<>>
        /\ Trimmed(renders[r].content) # <<>>
        /\ Trimmed(renders[r].content) # renders[r].content
        /\ Len(renders[r].elements) = 1
        /\ renders[r].elements[1].content = Trimmed(renders[r].content)


(***************************************************************************)
(* The size of the cache after a trim                                      *)
(***************************************************************************)
TrimTarget == 500           \* "keep most recent 500 when exceeds 1000"

\* C27: once the cache has exceeded 1000 entries it was trimmed to the most
\* recent 500: after an eviction it holds at most 500 + the insertions since,
\* so after the 1001st insertion exactly the last 500 identifiers recorded.
C27_TrimKeepsHalf ==
    Len(recorded) = DedupCapacity + 1 =>
        /\ Len(processed_message_ids) = TrimTarget
        /\ processed_message_ids =
               SubSeq(recorded, Len(recorded) - TrimTarget + 1, Len(recorded))


(***************************************************************************)
(* The adapter from construction to the end of its event loop, with the    *)
(* deliveries noted that _on_message_sync does not schedule, and with a    *)
(* transport thread that may end on its own.                               *)
(***************************************************************************)
LifecycleEvents ==
    {Event(1, "user", "ou_user", "p2p", "text", TextHello),
     Event(2, "user", "ou_user", "group", "image", ImageWithKey)}

\* run_ws: self._ws_client.start() raises, the exception is logged and the
\* thread ends
WsThreadDies ==
    /\ ws_thread = "started"
    /\ ws_thread' = "died"
    /\ UNCHANGED <<config, running, loop, client, ws_client, start_pc, inbound, transfer>>

NextLifecycle ==
    \/ Start
    \/ KeepAliveExit
    \/ Stop
    \/ LoopCloses
    \/ WsThreadDies
    \/ \E e \in LifecycleEvents : OnMessageSyncNoted(e)
    \/ HandlerStep

\* the event loop runs start() again after each sleep of its keep-alive loop
SpecLifecycle == Init /\ [][NextLifecycle]_vars /\ WF_vars(KeepAliveExit)

\* C28: a delivery that finds no running loop is dropped and changes
\* nothing: no handler is scheduled, the dedup cache, the bus and all the
\* rest stay as they are; a handler is scheduled only on a running loop; and
\* a dropped delivery leaves no trace for later ones: a handler is dropped
\* as a duplicate only when another handler saw its identifier first, so a
\* handler whose identifier was only ever dropped before passes as first
\* seen.
C28_DroppedWithoutEffect ==
    /\ [][Len(dropped') > Len(dropped) =>
             /\ loop # "running"
             /\ UNCHANGED <<lifecycle, processed_message_ids, handlers, bus, recorded, evicted,
                            transfer>>]_vars
    /\ [][Len(handlers') > Len(handlers) => (loop = "running" /\ UNCHANGED dropped)]_vars
    /\ [](\A h \in Hs :
             /\ handlers[h].outcome = "duplicate" =>
                    \E k \in Hs \ {h} : IdOf(k) = IdOf(h) /\ handlers[k].first_seen
             /\ (handlers[h].pc # "scheduled" /\ \A k \in Hs \ {h} : IdOf(k) # IdOf(h))
                    => handlers[h].first_seen)
    /\ [](Range(processed_message_ids) \subseteq DeliveredIds)

\* C28 witness: an event was delivered before start() and dropped; after
\* start() the same identifier was delivered again, passed the dedup check
\* as first seen and was dispatched.
C28_Witness ==
    /\ loop = "running"
    /\ \E k \in 1..Len(dropped) : \E h \in Hs :
           /\ IdOf(h) = dropped[k].message_id
           /\ handlers[h].first_seen
           /\ handlers[h].outcome = "dispatched"
           /\ IdOf(h) \in Range(processed_message_ids)


\* start() has set up the client and the transport and entered its loop
StartedOk == client /\ start_pc # "idle"

\* C29: after a successful start(), start() stays in its keep-alive loop
\* while the running flag is true: it returns only by a step that finds the
\* flag false, so it has not returned while the flag is true, whatever became
\* of the transport thread; and once the flag is false (stop() was called)
\* it returns, under fair scheduling of the event loop.
C29_KeepAliveUntilStopped ==
    /\ [][(start_pc = "keepalive" /\ start_pc' # "keepalive") =>
             (~running /\ start_pc' = "returned")]_vars
    /\ []((StartedOk /\ running) => start_pc = "keepalive")
    /\ []((StartedOk /\ start_pc = "returned") => ~running)
    /\ (start_pc = "keepalive" /\ ~running) ~> (start_pc = "returned")

\* C29 witness: start() has returned after stop() was called on the started
\* adapter, while the event loop was still running.
C29_Witness ==
    /\ StartedOk
    /\ start_pc = "returned"
    /\ ~running
    /\ ws_thread = "stop_requested"
    /\ loop = "running"

=============================================================================
